---- MODULE Spec2Model ----
(***************************************************************************)
(* File-based coordination of the ralph-wiggum helper scripts.  Every      *)
(* invocation of a script is an operating-system process; the processes   *)
(* share only the files under the state directory.  One step of a process *)
(* is one file-system call (or one read-parse pair on a file that is only *)
(* ever replaced by an atomic rename).                                     *)
(*                                                                         *)
(* Timestamps (new Date().toISOString()) are modelled by the number of the *)
(* process that took them: two invocations never share a timestamp.  The   *)
(* fields task, startedAt, description and claimedAt are written once and  *)
(* never read by any branch; task is kept, the others are left out.       *)
(***************************************************************************)
EXTENDS Integers, Sequences, FiniteSets

\* ------------------------------------------------------------------ bounds
MaxProcs == 3          \* concurrent invocations of a run
BigIter == 10          \* the largest iteration number of a validation record

\* the step ids of the task breakdown: steps meet only at the ledger
StepNames == <<"a", "b">>
NumSteps == Len(StepNames)
Steps == {StepNames[i] : i \in 1..NumSteps}
WorkerNames == <<"w1", "w2", "w3", "w4", "w5", "w6">>
Workers == {WorkerNames[i] : i \in 1..Len(WorkerNames)}

\* ------------------------------------------------------------------ files
NoFile == [kind |-> "absent"]
Corrupt == [kind |-> "corrupt"]          \* present, JSON.parse throws

NoIndex == [present |-> FALSE, status |-> "", worker |-> "null", result |-> "null"]
NoEntry == [present |-> FALSE, status |-> "", worker |-> "null", completedAt |-> 0]
DeclaredEntry == [present |-> TRUE, status |-> "pending", worker |-> "null", completedAt |-> 0]

StepJson(st, w, ts, res) ==
    [kind |-> "json", status |-> st, worker |-> w, completedAt |-> ts, result |-> res]
PendingStep == StepJson("pending", "null", 0, "null")

LockJson(w, p) == [kind |-> "json", workerId |-> w, pid |-> p]

\* ralph-init.mjs: the ledger as initializeState writes it; maxIterations 0
\* stands for null (parseArgs turns --max-iterations 0 into null), and -1 for
\* a ledger written by hand without the field
initialState(promise, maxIt) ==
    [kind |-> "json", task |-> "T", iteration |-> 1, maxIterations |-> maxIt,
     completionPromise |-> promise, steps |-> [s \in Steps |-> NoEntry],
     workers |-> << >>, monitors |-> << >>,
     lastValidation |-> [kind |-> "absent"]]

InSeq(x, q) == \E i \in 1..Len(q) : q[i] = x
\* a push that does not look whether the identifier is listed
pushUnique_Always(q, x) == Append(q, x)

\* if (!list.includes(x)) list.push(x)
pushUnique(q, x) == IF InSeq(x, q) THEN q ELSE Append(q, x)

VARIABLES
    ledger,        \* ralph-state.json
    stateLock,     \* ralph-state.lock
    stepFile,      \* steps/<id>.json
    stepLock,      \* steps/<id>.lock
    progress,      \* progress/worker-<owner>.json
    validation,    \* validation/iteration-<N>.json
    inv,           \* the command line of each invocation
    pc,            \* where each process stands
    loc,           \* the local variables of each process
    exit,          \* "" while running, then "ok" or the message given to fail()
    out,           \* what a process printed on standard output
    seen,          \* what the step file was when the process first read it
    wrote          \* the files a process has created, replaced or removed

files == <<ledger, stateLock, stepFile, stepLock, progress, validation>>
vars == <<ledger, stateLock, stepFile, stepLock, progress, validation,
          inv, pc, loc, exit, out, seen, wrote>>

\* the local variables of an invocation, before any is assigned
NoLoc == [state |-> NoFile, latest |-> NoFile, stepData |-> NoFile, workerId |-> "null",
          completedAt |-> 0, progressData |-> NoFile, listing |-> {},
          index |-> [s \in Steps |-> NoIndex], notes |-> << >>, validation |-> NoFile,
          waited |-> 0, tmp |-> NoFile]
NoOut == [kind |-> "none"]

\* argv of ralph-worker-claim.mjs
ClaimInv(s, w, f, aft) ==
    [op |-> "claim", step |-> s, worker |-> w, force |-> f, after |-> aft]
\* argv of ralph-worker-complete.mjs; worker "null" when --worker-id is not given
CompleteInv(s, w, r, aft) ==
    [op |-> "complete", step |-> s, worker |-> w, result |-> r, after |-> aft]

\* argv of ralph-monitor-check.mjs; iteration 0 when --iteration is not given;
\* tests is what runTests comes to: "notrun" without --run-tests, "undetected"
\* when no command is given or detected, else "pass" or "fail"
ValidateInv(n, m, tst, aft) ==
    [op |-> "validate", iteration |-> n, monitorId |-> m, tests |-> tst, after |-> aft]

\* fail(): print the message, process.exit(1).  Nothing after it runs, not
\* even an enclosing finally block.
fail(p, msg) ==
    /\ pc' = [pc EXCEPT ![p] = "done"]
    /\ exit' = [exit EXCEPT ![p] = msg]
    /\ loc' = [loc EXCEPT ![p] = NoLoc]

goto(p, label) == pc' = [pc EXCEPT ![p] = label]

\* the status a reader finds in a step file, or how the read failed
statusOf(file) == IF file.kind = "json" THEN file.status ELSE file.kind

touch(p, f) == wrote' = [wrote EXCEPT ![p] = @ \cup {f}]

\* an invocation is launched once the one it follows, if any, has ended
ready(p) == IF inv[p].after = 0 THEN TRUE ELSE pc[inv[p].after] = "done"

\* ------------------------------------------------------------ main: start
\* parseArgs, then readStateFile(stateDirAbs) in the main block of
\* ralph-worker-claim.mjs, ralph-worker-complete.mjs and ralph-monitor-check.mjs.
\* claimStep and completeStep never use the state read here; validateCompletion
\* does.
Start(p) ==
    /\ pc[p] = "start"
    /\ inv[p].op \in {"claim", "complete", "validate"}
    /\ ready(p)
    /\ IF ledger.kind # "json"
       THEN fail(p, "Failed to read JSON file")
       ELSE /\ goto(p, CASE inv[p].op = "claim" -> "claim_check"
                         [] inv[p].op = "complete" -> "complete_read"
                         [] OTHER -> "validate_list")
            /\ loc' = [loc EXCEPT ![p] = [@ EXCEPT !.state =
                           IF inv[p].op = "validate" THEN ledger ELSE @]]
            /\ UNCHANGED exit
    /\ UNCHANGED <<files, inv, out, seen, wrote>>

\* ------------------------------------------------------------ claimStep
\* existsSync(stepFileAbs) and tryReadJsonFile: the corruption and the
\* already-claimed checks

\* a claim that overwrites an unparseable step file without being asked to
refuseCorrupt_Never(existing, force) == FALSE

\* if (!existing) { if (!config.forceOverwrite) fail(...) }
refuseCorrupt(existing, force) == existing.kind = "corrupt" /\ ~force

\* a check that lets a finished step be claimed again
alreadyClaimed_InProgressOnly(existing) ==
    existing.kind = "json" /\ existing.status = "in-progress"

\* else if (existing?.status === 'in-progress' || existing?.status === 'complete')
alreadyClaimed(existing) ==
    existing.kind = "json" /\ existing.status \in {"in-progress", "complete"}

claimStep_check(p) ==
    /\ pc[p] = "claim_check"
    /\ LET s == inv[p].step
           existing == stepFile[s]
       IN  IF refuseCorrupt(existing, inv[p].force)
           THEN fail(p, "Step file is corrupted")
           ELSE IF alreadyClaimed(existing)
           THEN fail(p, "already " \o existing.status)
           ELSE /\ goto(p, "claim_lock")
                /\ UNCHANGED <<exit, loc>>
    /\ seen' = [seen EXCEPT ![p] = statusOf(stepFile[inv[p].step])]
    /\ UNCHANGED <<files, inv, out, wrote>>

\* a creation without the 'x' of the 'wx' flag: it succeeds over a file
lockIsFree_Overwrite(l) == TRUE

\* a creation that takes over the lock of a process that is no longer alive
lockIsFree_Expires(l) == IF l.kind = "absent" THEN TRUE ELSE pc[l.pid] = "crashed"

\* writeFileSync(lockFileAbs, ..., { flag: 'wx' }): exclusive creation
lockIsFree(l) == l.kind = "absent"

\* a loser of the creation race that clears the lock it could not create
claimStep_lock_LoserUnlinks(p) ==
    /\ pc[p] = "claim_lock"
    /\ LET s == inv[p].step
       IN  IF lockIsFree(stepLock[s])
           THEN /\ stepLock' = [stepLock EXCEPT ![s] = LockJson(inv[p].worker, p)]
                /\ goto(p, "claim_write")
                /\ UNCHANGED <<exit, loc>>
           ELSE /\ fail(p, "currently locked")
                /\ stepLock' = [stepLock EXCEPT ![s] = NoFile]
    /\ touch(p, "stepLock")
    /\ UNCHANGED <<ledger, stateLock, stepFile, progress, validation, inv, out, seen>>

claimStep_lock(p) ==
    /\ pc[p] = "claim_lock"
    /\ LET s == inv[p].step
       IN  IF lockIsFree(stepLock[s])
           THEN /\ stepLock' = [stepLock EXCEPT ![s] = LockJson(inv[p].worker, p)]
                /\ goto(p, "claim_write")
                /\ touch(p, "stepLock")
                /\ UNCHANGED <<exit, loc>>
           ELSE /\ fail(p, "currently locked")
                /\ UNCHANGED <<stepLock, wrote>>
    /\ UNCHANGED <<ledger, stateLock, stepFile, progress, validation, inv, out, seen>>

\* stepData of claimStep
claimStepData(w) == StepJson("in-progress", w, 0, "null")

\* a claim that gives its lock back as soon as the step file is written
claimStep_write_DropsLock(p) ==
    /\ pc[p] = "claim_write"
    /\ stepFile' = [stepFile EXCEPT ![inv[p].step] = claimStepData(inv[p].worker)]
    /\ stepLock' = [stepLock EXCEPT ![inv[p].step] = NoFile]
    /\ goto(p, "acquire")
    /\ touch(p, "stepFile")
    /\ UNCHANGED <<ledger, stateLock, progress, validation, inv, loc, exit, out, seen>>

\* writeJsonAtomic(stepFileAbs, stepData)
claimStep_write(p) ==
    /\ pc[p] = "claim_write"
    /\ stepFile' = [stepFile EXCEPT ![inv[p].step] = claimStepData(inv[p].worker)]
    /\ goto(p, "acquire")
    /\ touch(p, "stepFile")
    /\ UNCHANGED <<ledger, stateLock, stepLock, progress, validation, inv, loc, exit, out, seen>>

\* ------------------------------------------------------------ withLock
\* an acquisition that does not look whether the lock file exists
withLock_acquire_NoExcl(p) ==
    /\ pc[p] = "acquire"
    /\ stateLock' = [kind |-> "json", pid |-> p]
    /\ goto(p, "fn_read")
    /\ touch(p, "stateLock")
    /\ UNCHANGED <<ledger, stepFile, stepLock, progress, validation, inv, loc, exit, out, seen>>

\* the loop of withLock: the exclusive creation of ralph-state.lock; on EEXIST
\* the process sleeps and tries again
withLock_acquire(p) ==
    /\ pc[p] = "acquire"
    /\ lockIsFree(stateLock)
    /\ stateLock' = [kind |-> "json", pid |-> p]
    /\ goto(p, "fn_read")
    /\ touch(p, "stateLock")
    /\ UNCHANGED <<ledger, stepFile, stepLock, progress, validation, inv, loc, exit, out, seen>>

\* withLock's defaults: { timeoutMs = 5000, retryMs = 25 }
timeoutMs == 5000
retryMs == 25

\* the loop of withLock on EEXIST while Date.now() - start <= timeoutMs:
\* sleepMs(retryMs).  loc.waited is Date.now() - start at the next attempt: the
\* sleep lasts retryMs, or longer when the process is not scheduled at once.
\* The count stops past the timeout, where its value no longer matters.
withLock_retry(p) ==
    /\ pc[p] = "acquire"
    /\ ~lockIsFree(stateLock)
    /\ loc[p].waited <= timeoutMs
    /\ \E d \in {retryMs, timeoutMs} :
         loc' = [loc EXCEPT ![p] = [@ EXCEPT !.waited =
                    IF @ + d > timeoutMs THEN timeoutMs + retryMs ELSE @ + d]]
    /\ UNCHANGED <<files, inv, pc, exit, out, seen, wrote>>

\* a loop that takes a new start at every attempt
withLock_timeout_Never(p) == FALSE /\ UNCHANGED vars

\* the loop of withLock on EEXIST once Date.now() - start > timeoutMs: fail()
withLock_timeout(p) ==
    /\ pc[p] = "acquire"
    /\ ~lockIsFree(stateLock)
    /\ loc[p].waited > timeoutMs
    /\ fail(p, "Timed out acquiring lock")
    /\ UNCHANGED <<files, inv, out, seen, wrote>>

\* the ledger updates of claimStep and completeStep, applied to latestState
claimFold(latest, s, w) ==
    [latest EXCEPT !.steps[s] = [@ EXCEPT !.present = TRUE, !.status = "in-progress",
                                          !.worker = w],
                   !.workers = pushUnique(@, w)]

\* a fold that rebuilds the steps map around its own step
completeFold_Reset(latest, s, w, ts) ==
    [latest EXCEPT !.steps = [x \in Steps |->
                                 IF x = s
                                 THEN [present |-> TRUE, status |-> "complete",
                                       worker |-> "null", completedAt |-> ts]
                                 ELSE NoEntry],
                   !.workers = pushUnique(@, w)]

completeFold(latest, s, w, ts) ==
    [latest EXCEPT !.steps[s] = [@ EXCEPT !.present = TRUE, !.status = "complete",
                                          !.completedAt = ts],
                   !.workers = pushUnique(@, w)]

\* fn of withLock: readStateFile(stateDirAbs) gives latestState
fn_read(p) ==
    /\ pc[p] = "fn_read"
    /\ IF ledger.kind # "json"
       THEN fail(p, "Failed to read JSON file")
       ELSE /\ loc' = [loc EXCEPT ![p] = [@ EXCEPT !.latest = ledger]]
            /\ goto(p, "fn_write")
            /\ UNCHANGED exit
    /\ UNCHANGED <<files, inv, out, seen, wrote>>

\* the ledger update of validateCompletion
lastValidationOf(v) ==
    [kind |-> "json", iteration |-> v.iteration, overallComplete |-> v.overallComplete,
     allStepsComplete |-> v.allStepsComplete, testsPassing |-> v.testsPassing,
     promiseFound |-> v.promiseFound, timestamp |-> v.timestamp]

\* a validation that writes the steps back as they were declared
validateFold_ResetsSteps(latest, m, v) ==
    [latest EXCEPT !.monitors = pushUnique(@, m), !.lastValidation = lastValidationOf(v),
                   !.steps = [s \in Steps |-> IF @[s].present THEN DeclaredEntry ELSE @[s]]]

validateFold(latest, m, v) ==
    [latest EXCEPT !.monitors = pushUnique(@, m), !.lastValidation = lastValidationOf(v)]

\* the document a process writes back
folded(p) ==
    CASE inv[p].op = "claim" ->
           claimFold(loc[p].latest, inv[p].step, inv[p].worker)
      [] inv[p].op = "complete" ->
           completeFold(loc[p].latest, inv[p].step, loc[p].workerId, loc[p].completedAt)
      [] OTHER ->
           validateFold(loc[p].latest, inv[p].monitorId, loc[p].validation)

\* fn of withLock: writeJsonAtomic(stateFileAbs, latestState)
fn_write(p) ==
    /\ pc[p] = "fn_write"
    /\ ledger' = folded(p)
    /\ goto(p, "release")
    /\ touch(p, "ledger")
    /\ UNCHANGED <<stateLock, stepFile, stepLock, progress, validation, inv, loc, exit, out, seen>>

\* finally { tryUnlink(lockPath) } and the return of the operation
withLock_release(p) ==
    /\ pc[p] = "release"
    /\ stateLock' = NoFile
    /\ pc' = [pc EXCEPT ![p] = "done"]
    /\ exit' = [exit EXCEPT ![p] = "ok"]
    /\ loc' = [loc EXCEPT ![p] = NoLoc]
    /\ UNCHANGED <<ledger, stepFile, stepLock, progress, validation, inv, out, seen, wrote>>

\* ------------------------------------------------------------ completeStep
\* existsSync(stepFileAbs), readJsonFile(stepFileAbs), the worker-id check and
\* the early return on a step that is already complete

\* a complete that does not compare the owner given with the one recorded
ownerMismatch_Never(given, recorded) == FALSE

\* if (config.workerId && stepData.worker !== config.workerId)
ownerMismatch(given, recorded) == given # "null" /\ recorded # given

\* a complete without the early return
alreadyComplete_Never(stepData) == FALSE

\* if (stepData.status === 'complete')
alreadyComplete(stepData) == stepData.status = "complete"

completeStep_read(p) ==
    /\ pc[p] = "complete_read"
    /\ LET s == inv[p].step
           stepData == stepFile[s]
           workerId == IF inv[p].worker # "null" THEN inv[p].worker ELSE stepData.worker
       IN  IF stepData.kind = "absent"
           THEN fail(p, "Step file not found") /\ UNCHANGED out
           ELSE IF stepData.kind = "corrupt"
           THEN fail(p, "Failed to read JSON file") /\ UNCHANGED out
           ELSE IF ownerMismatch(inv[p].worker, stepData.worker)
           THEN fail(p, "Worker ID mismatch") /\ UNCHANGED out
           ELSE IF workerId = "null"
           THEN fail(p, "Worker ID required") /\ UNCHANGED out
           ELSE IF alreadyComplete(stepData)
           THEN /\ pc' = [pc EXCEPT ![p] = "done"]
                /\ exit' = [exit EXCEPT ![p] = "ok"]
                /\ out' = [out EXCEPT ![p] = [kind |-> "already", workerId |-> workerId,
                                             completedAt |-> stepData.completedAt]]
                /\ loc' = [loc EXCEPT ![p] = NoLoc]
           ELSE /\ goto(p, "complete_lock")
                /\ loc' = [loc EXCEPT ![p] = [@ EXCEPT !.stepData = stepData,
                                                       !.workerId = workerId]]
                /\ UNCHANGED <<exit, out>>
    /\ seen' = [seen EXCEPT ![p] = statusOf(stepFile[inv[p].step])]
    /\ UNCHANGED <<files, inv, wrote>>

\* a complete that goes on whatever the lock file says
completeStep_lock_NoCheck(p) ==
    /\ pc[p] = "complete_lock"
    /\ goto(p, "complete_write")
    /\ UNCHANGED <<files, inv, loc, exit, out, seen, wrote>>

\* existsSync(lockFileAbs), readJsonFile(lockFileAbs) and the lock-owner check
completeStep_lock(p) ==
    /\ pc[p] = "complete_lock"
    /\ LET lockData == stepLock[inv[p].step]
       IN  IF lockData.kind = "absent"
           THEN fail(p, "Lock file not found")
           ELSE IF lockData.workerId # loc[p].workerId
           THEN fail(p, "Lock file workerId mismatch")
           ELSE goto(p, "complete_write") /\ UNCHANGED <<exit, loc>>
    /\ UNCHANGED <<files, inv, out, seen, wrote>>

\* stepData as completeStep rewrites it: the copy read at the start, with
\* status, completedAt and, when --result is given, result replaced
completedStepData(stepData, ts, result) ==
    [stepData EXCEPT !.status = "complete", !.completedAt = ts,
                     !.result = IF result # "null" THEN result ELSE @]

\* writeJsonAtomic(stepFileAbs, stepData)
completeStep_write(p) ==
    /\ pc[p] = "complete_write"
    /\ stepFile' = [stepFile EXCEPT ![inv[p].step] =
                        completedStepData(loc[p].stepData, p, inv[p].result)]
    /\ loc' = [loc EXCEPT ![p] = [@ EXCEPT !.completedAt = p, !.stepData = NoFile]]
    /\ goto(p, "progress_read")
    /\ touch(p, "stepFile")
    /\ UNCHANGED <<ledger, stateLock, stepLock, progress, validation, inv, exit, out, seen>>

\* progressData: the default, or the progress file when it exists and parses
completeStep_progress_read(p) ==
    /\ pc[p] = "progress_read"
    /\ LET existing == progress[loc[p].workerId]
       IN  loc' = [loc EXCEPT ![p] = [@ EXCEPT !.progressData =
                      IF existing.kind = "json" THEN existing
                      ELSE [kind |-> "json", stepsCompleted |-> << >>]]]
    /\ goto(p, "progress_write")
    /\ UNCHANGED <<files, inv, exit, out, seen, wrote>>

\* stepsCompleted.push(stepId) unless included; writeJsonAtomic(progressFileAbs)
completeStep_progress_write(p) ==
    /\ pc[p] = "progress_write"
    /\ progress' = [progress EXCEPT ![loc[p].workerId] =
                       [loc[p].progressData EXCEPT
                            !.stepsCompleted = pushUnique(@, inv[p].step)]]
    /\ loc' = [loc EXCEPT ![p] = [@ EXCEPT !.progressData = NoFile]]
    /\ goto(p, "complete_unlock")
    /\ touch(p, "progress")
    /\ UNCHANGED <<ledger, stateLock, stepFile, stepLock, validation, inv, exit, out, seen>>

\* tryUnlink(lockFileAbs)
completeStep_unlock(p) ==
    /\ pc[p] = "complete_unlock"
    /\ stepLock' = [stepLock EXCEPT ![inv[p].step] = NoFile]
    /\ goto(p, "acquire")
    /\ touch(p, "stepLock")
    /\ UNCHANGED <<ledger, stateLock, stepFile, progress, validation, inv, loc, exit, out, seen>>

\* ------------------------------------------------------------ validation records
\* The decimal digits of n, as `iteration-${n}.json` spells them
Digits(n) == IF n < 10 THEN <<n>> ELSE <<n \div 10, n % 10>>

IterNums == {1, 2, BigIter}
ValNames == {Digits(n) : n \in IterNums}

\* parseInt(m[1], 10) on the digits of a file name
RECURSIVE parseInt(_)
parseInt(ds) ==
    IF ds = << >> THEN 0 ELSE 10 * parseInt(SubSeq(ds, 1, Len(ds) - 1)) + ds[Len(ds)]

\* ------------------------------------------------------------ validateCompletion
\* loadStepIndex, first loop: the index seeded from the steps of the state read
\* in main; then readdirSync(stepsDirAbs) filtered to *.json
seedIndex(state) ==
    [s \in Steps |->
        IF state.steps[s].present
        THEN [present |-> TRUE,
              status |-> IF state.steps[s].status = "" THEN "pending"
                         ELSE state.steps[s].status,
              worker |-> state.steps[s].worker, result |-> "null"]
        ELSE NoIndex]

validate_list(p) ==
    /\ pc[p] = "validate_list"
    /\ loc' = [loc EXCEPT ![p] = [@ EXCEPT
                  !.index = seedIndex(loc[p].state),
                  !.listing = {s \in Steps : stepFile[s].kind # "absent"}]]
    /\ goto(p, "validate_scan")
    /\ UNCHANGED <<files, inv, exit, out, seen, wrote>>

\* loadStepIndex, second loop, one file: tryReadJson and the overlay of the
\* file's data on the index entry
overlay(current, stepData) ==
    [present |-> TRUE,
     status |-> IF stepData.status = "" THEN
                   (IF current.present THEN current.status ELSE "pending")
                ELSE stepData.status,
     worker |-> IF stepData.worker = "null" THEN current.worker ELSE stepData.worker,
     result |-> IF stepData.result # "null" THEN stepData.result ELSE current.result]

validate_scan(p) ==
    /\ pc[p] = "validate_scan"
    /\ loc[p].listing # {}
    /\ \E s \in loc[p].listing :
         LET stepData == stepFile[s]
         IN  loc' = [loc EXCEPT ![p] = [@ EXCEPT
                 !.listing = @ \ {s},
                 !.index[s] = IF stepData.kind = "json" THEN overlay(@, stepData) ELSE @,
                 !.notes = IF stepData.kind = "json" THEN @
                           ELSE Append(@, "Corrupted step file: " \o s)]]
    /\ UNCHANGED <<files, inv, pc, exit, out, seen, wrote>>

\* expectedStepIds = Object.keys(state.steps)
expectedStepIds(state) == {s \in Steps : state.steps[s].present}

\* a validation for which one finished step is enough
allStepsComplete_Any(state, index) ==
    IF expectedStepIds(state) # {}
    THEN \E s \in expectedStepIds(state) : index[s].status = "complete"
    ELSE \E s \in Steps : index[s].present /\ index[s].status = "complete"

\* a validation for which nothing to do is everything done
allStepsComplete_Vacuous(state, index) ==
    \A s \in Steps : index[s].present => index[s].status = "complete"

\* expectedStepIds.length > 0 ? expectedStepIds.every(...) :
\* (stepEntries.length > 0 && stepEntries.every(...))
allStepsComplete(state, index) ==
    IF expectedStepIds(state) # {}
    THEN \A s \in expectedStepIds(state) : index[s].status = "complete"
    ELSE /\ \E s \in Steps : index[s].present
         /\ \A s \in Steps : index[s].present => index[s].status = "complete"

\* a validation that takes a command that failed for a command that was not
\* found
testsPassing_FailIsNull(tst) ==
    CASE tst = "pass" -> "true" [] OTHER -> "null"

\* testResult.passing, or null
testsPassing(tst) ==
    CASE tst = "pass" -> "true" [] tst = "fail" -> "false" [] OTHER -> "null"

\* searchCompletionPromise over the results of the indexed steps; a result
\* "promise" is a text that holds the configured marker between the delimiters
promiseFound(state, index) ==
    /\ state.completionPromise # "null"
    /\ \E s \in Steps : index[s].present /\ index[s].result = "promise"

\* a validation that takes tests that did not run for tests that failed
overallComplete_TestsRequired(all, tst, promise, found) ==
    all /\ tst = "true" /\ (IF promise # "null" THEN found ELSE TRUE)

\* a validation that does not look for the promise
overallComplete_IgnoresPromise(all, tst, promise, found) == all /\ tst # "false"

overallComplete(all, tst, promise, found) ==
    all /\ tst # "false" /\ (IF promise # "null" THEN found ELSE TRUE)

\* the notes validateCompletion adds after the scan
laterNotes(all, tst, promise, found) ==
    (IF tst = "fail" THEN <<"Tests failed">>
     ELSE IF tst = "undetected" THEN <<"Test framework not detected">> ELSE << >>)
    \o (IF all THEN << >> ELSE <<"step(s) not complete">>)
    \o (IF promise # "null" /\ ~found THEN <<"Completion promise not found">> ELSE << >>)

\* the validation object
validationOf(p) ==
    LET state == loc[p].state
        index == loc[p].index
        all == allStepsComplete(state, index)
        tp == testsPassing(inv[p].tests)
        found == promiseFound(state, index)
    IN  [kind |-> "json",
         iteration |-> IF inv[p].iteration # 0 THEN inv[p].iteration ELSE state.iteration,
         monitorId |-> inv[p].monitorId,
         allStepsComplete |-> all, testsPassing |-> tp, promiseFound |-> found,
         overallComplete |-> overallComplete(all, tp, state.completionPromise, found),
         notes |-> loc[p].notes
                   \o laterNotes(all, inv[p].tests, state.completionPromise, found),
         timestamp |-> p]

\* writeJsonAtomic(validationFileAbs, validation)
validate_record(p) ==
    /\ pc[p] = "validate_scan"
    /\ loc[p].listing = {}
    /\ LET v == validationOf(p)
       IN  /\ validation' = [validation EXCEPT ![Digits(v.iteration)] = v]
           /\ loc' = [loc EXCEPT ![p] = [NoLoc EXCEPT !.validation = v]]
    /\ goto(p, "acquire")
    /\ touch(p, "validation")
    /\ UNCHANGED <<ledger, stateLock, stepFile, stepLock, progress, inv, exit, out, seen>>

\* ------------------------------------------------------------ initializeState
\* argv of ralph-init.mjs
InitInv(promise, maxIt, aft) ==
    [op |-> "init", completionPromise |-> promise, maxIterations |-> maxIt, after |-> aft]

\* mkdirSync of the directories, then existsSync(stateFileAbs)
initializeState_check(p) ==
    /\ pc[p] = "start"
    /\ inv[p].op = "init"
    /\ ready(p)
    /\ IF ledger.kind # "absent"
       THEN fail(p, "State file already exists")
       ELSE goto(p, "init_write") /\ UNCHANGED <<exit, loc>>
    /\ UNCHANGED <<files, inv, out, seen, wrote>>

\* writeJsonAtomic(stateFileAbs, state) and the return of the operation
initializeState_write(p) ==
    /\ pc[p] = "init_write"
    /\ ledger' = initialState(inv[p].completionPromise, inv[p].maxIterations)
    /\ pc' = [pc EXCEPT ![p] = "done"]
    /\ exit' = [exit EXCEPT ![p] = "ok"]
    /\ touch(p, "ledger")
    /\ UNCHANGED <<stateLock, stepFile, stepLock, progress, validation, inv, loc, out, seen>>

\* ------------------------------------------------------------ ralph-cleanup.mjs
\* A directory path is the sequence of its segments, relative to the working
\* directory: << >> is the working directory itself.
DEFAULT_STATE_DIR == <<".ralph">>

\* the --state-dir values tried: the default, a directory that does not
\* exist, and paths that lead to the working directory or out of it
StateDirs == {DEFAULT_STATE_DIR, <<"other">>, << >>, <<".">>, <<"..">>,
              <<".ralph", "..">>}

\* assertSafeStateDir: "" when the path is accepted, else the message of fail()
assertSafeStateDir(stateDir) ==
    IF Len(stateDir) = 0 THEN "state-dir is required"
    ELSE IF \E i \in 1..Len(stateDir) : stateDir[i] \in {".", ".."}
    THEN "state-dir must not contain . or .. segments"
    ELSE ""

\* path.resolve(cwd(), ...): "." segments dropped, ".." segments applied
RECURSIVE resolve(_)
resolve(path) ==
    IF Len(path) = 0 THEN << >>
    ELSE LET front == resolve(SubSeq(path, 1, Len(path) - 1))
             last == path[Len(path)]
         IN  IF last = "." THEN front
             ELSE IF last = ".."
             THEN (IF Len(front) = 0 THEN << >> ELSE SubSeq(front, 1, Len(front) - 1))
             ELSE Append(front, last)

\* existsSync(join(cwd(), stateDir)): only the default directory is ever
\* created, and it is there as long as a file is in it
existsDir(stateDir) ==
    IF resolve(stateDir) = << >> THEN TRUE
    ELSE IF resolve(stateDir) = DEFAULT_STATE_DIR
    THEN \/ ledger.kind # "absent" \/ stateLock.kind # "absent"
         \/ \E s \in Steps : stepFile[s].kind # "absent" \/ stepLock[s].kind # "absent"
         \/ \E w \in DOMAIN progress : progress[w].kind # "absent"
         \/ \E n \in DOMAIN validation : validation[n].kind # "absent"
    ELSE FALSE

\* argv of ralph-cleanup.mjs
CleanupArgs(dir, ra, f, aft) ==
    [op |-> "cleanup", stateDir |-> dir, archive |-> FALSE, removeAll |-> ra,
     force |-> f, after |-> aft]
CleanupInv(aft) == CleanupArgs(DEFAULT_STATE_DIR, FALSE, FALSE, aft)
\* ralph-cleanup.mjs --archive
ArchiveInv(aft) == [CleanupInv(aft) EXCEPT !.archive = TRUE]

\* the gate of --remove-all taken away
refuseRemoveAll_Never(p) == FALSE
\* main: if (config.removeAll && !config.force)
refuseRemoveAll(p) == inv[p].removeAll /\ ~inv[p].force

\* parseArgs and the gate let the invocation go on to cleanupLocks
cleanupProceeds(p) ==
    /\ pc[p] = "start"
    /\ inv[p].op = "cleanup"
    /\ ready(p)
    /\ assertSafeStateDir(inv[p].stateDir) = ""
    /\ ~refuseRemoveAll(p)

\* where main goes once cleanupLocks has returned
afterArchive(p) ==
    IF inv[p].removeAll
    THEN goto(p, "cleanup_remove") /\ UNCHANGED exit
    ELSE pc' = [pc EXCEPT ![p] = "done"] /\ exit' = [exit EXCEPT ![p] = "ok"]

afterLocks(p) ==
    IF inv[p].archive
    THEN goto(p, "cleanup_archive") /\ UNCHANGED exit
    ELSE afterArchive(p)

\* parseArgs: assertSafeStateDir(result.stateDir) fails
cleanup_parseArgs_fails(p) ==
    /\ pc[p] = "start"
    /\ inv[p].op = "cleanup"
    /\ ready(p)
    /\ assertSafeStateDir(inv[p].stateDir) # ""
    /\ fail(p, assertSafeStateDir(inv[p].stateDir))
    /\ UNCHANGED <<files, inv, out, seen, wrote>>

\* main: fail('Refusing --remove-all without --force')
cleanup_refuse(p) ==
    /\ pc[p] = "start"
    /\ inv[p].op = "cleanup"
    /\ ready(p)
    /\ assertSafeStateDir(inv[p].stateDir) = ""
    /\ refuseRemoveAll(p)
    /\ fail(p, "Refusing --remove-all without --force")
    /\ UNCHANGED <<files, inv, out, seen, wrote>>

\* cleanupLocks: if (!existsSync(stepsDir)) return 0
cleanupLocks_none(p) ==
    /\ cleanupProceeds(p)
    /\ ~(resolve(inv[p].stateDir) = DEFAULT_STATE_DIR /\ existsDir(inv[p].stateDir))
    /\ afterLocks(p)
    /\ UNCHANGED <<files, inv, loc, out, seen, wrote>>

\* cleanupLocks: readdirSync(stepsDir) filtered to *.lock
cleanupLocks_list(p) ==
    /\ cleanupProceeds(p)
    /\ resolve(inv[p].stateDir) = DEFAULT_STATE_DIR
    /\ existsDir(inv[p].stateDir)
    /\ loc' = [loc EXCEPT ![p] = [@ EXCEPT
                  !.listing = {s \in Steps : stepLock[s].kind # "absent"}]]
    /\ goto(p, "cleanup_unlink")
    /\ UNCHANGED <<files, inv, exit, out, seen, wrote>>

\* cleanupLocks: unlinkSync of one listed lock file, errors ignored
cleanupLocks_unlink(p) ==
    /\ pc[p] = "cleanup_unlink"
    /\ loc[p].listing # {}
    /\ \E s \in loc[p].listing :
         /\ stepLock' = [stepLock EXCEPT ![s] = NoFile]
         /\ loc' = [loc EXCEPT ![p] = [@ EXCEPT !.listing = @ \ {s}]]
    /\ touch(p, "stepLock")
    /\ UNCHANGED <<ledger, stateLock, stepFile, progress, validation, inv, pc, exit, out, seen>>

\* cleanupLocks: unlinkSync of ralph-state.lock, errors ignored; the result
\* is printed unless --remove-all was given
cleanupLocks_state(p) ==
    /\ pc[p] = "cleanup_unlink"
    /\ loc[p].listing = {}
    /\ stateLock' = NoFile
    /\ afterLocks(p)
    /\ loc' = [loc EXCEPT ![p] = NoLoc]
    /\ touch(p, "stateLock")
    /\ UNCHANGED <<ledger, stepFile, stepLock, progress, validation, inv, out, seen>>

\* archiveFiles: the *.json files of steps/, validation/ and progress/ and
\* ralph-state.json are copied into archive/iteration-<timestamp>/.  That
\* directory belongs to the invocation; its content is kept with the result
\* that the invocation prints, in out.
Archive(p) ==
    [kind |-> "cleanup",
     steps |-> [s \in {x \in Steps : stepFile[x].kind # "absent"} |-> stepFile[s]],
     validation |-> [n \in {x \in DOMAIN validation : validation[x].kind # "absent"}
                        |-> validation[n]],
     progress |-> [w \in {x \in DOMAIN progress : progress[x].kind # "absent"}
                      |-> progress[w]],
     state |-> ledger]

archiveFiles_Moves(p) ==
    /\ pc[p] = "cleanup_archive"
    /\ out' = [out EXCEPT ![p] = Archive(p)]
    /\ stepFile' = [s \in Steps |-> NoFile]
    /\ afterArchive(p)
    /\ UNCHANGED <<ledger, stateLock, stepLock, progress, validation, inv, loc, seen, wrote>>

archiveFiles(p) ==
    /\ pc[p] = "cleanup_archive"
    /\ out' = [out EXCEPT ![p] = Archive(p)]
    /\ afterArchive(p)
    /\ UNCHANGED <<files, inv, loc, seen, wrote>>

\* what removeAll returns
Removed(ok, msg) == [kind |-> "cleanup", removed |-> ok, error |-> msg]

\* removeAll: rmSync(fullPath, { recursive: true, force: true }) unless the
\* directory is missing or is the working directory; the result is printed.
\* Whatever the process removes is named in wrote: "cwd" for the working
\* directory, "stateDir" for the coordination directory.
removeAll(p) ==
    /\ pc[p] = "cleanup_remove"
    /\ pc' = [pc EXCEPT ![p] = "done"]
    /\ exit' = [exit EXCEPT ![p] = "ok"]
    /\ IF ~existsDir(inv[p].stateDir)
       THEN /\ out' = [out EXCEPT ![p] = Removed(FALSE, "State directory does not exist")]
            /\ UNCHANGED <<files, loc, wrote>>
       ELSE IF resolve(inv[p].stateDir) = << >>
       THEN /\ out' = [out EXCEPT ![p] = Removed(FALSE, "Refusing to remove working directory")]
            /\ UNCHANGED <<files, loc, wrote>>
       ELSE /\ ledger' = NoFile
            /\ stateLock' = NoFile
            /\ stepFile' = [s \in Steps |-> NoFile]
            /\ stepLock' = [s \in Steps |-> NoFile]
            /\ progress' = [w \in DOMAIN progress |-> NoFile]
            /\ validation' = [n \in DOMAIN validation |-> NoFile]
            /\ loc' = [q \in DOMAIN loc |-> [loc[q] EXCEPT !.tmp = NoFile]]
            /\ out' = [out EXCEPT ![p] = Removed(TRUE, "")]
            /\ touch(p, "stateDir")
    /\ UNCHANGED <<inv, seen>>

\* ------------------------------------------------------------ writeFileAtomic
\* writeFileAtomic step by step.  The temporary file of a process is
\* loc[p].tmp: its name holds the pid, so that no other process writes it.
\* A file that writeFileSync has opened and not yet closed holds a prefix of
\* the contents.
Partial == [kind |-> "partial"]

\* file names, as the sequence of their parts
stepPath(s) == <<s, ".json">>
\* `${filePath}.tmp.${process.pid}.${Date.now()}`
PidNames == <<"1", "2", "3", "4">>
tmpPath(filePath, p) == filePath \o <<".tmp", PidNames[p]>>
\* f.endsWith('.json')
endsWith(name, suffix) == name # << >> /\ name[Len(name)] = suffix

\* an invocation that writes a step file through writeJsonAtomic, and one
\* that reads the steps directory
WriteInv(s, w, aft) == [op |-> "write", step |-> s, worker |-> w, after |-> aft]
ObserveInv(aft) == [op |-> "observe", after |-> aft]

\* a write that opens the target itself
writeFileAtomic_open_InPlace(p) ==
    /\ pc[p] = "start"
    /\ inv[p].op = "write"
    /\ ready(p)
    /\ stepFile' = [stepFile EXCEPT ![inv[p].step] = Partial]
    /\ goto(p, "tmp_write")
    /\ UNCHANGED <<ledger, stateLock, stepLock, progress, validation, inv, loc, exit, out,
                   seen, wrote>>

\* writeFileSync(tmpPath, contents): the file is created and opened
writeFileAtomic_open(p) ==
    /\ pc[p] = "start"
    /\ inv[p].op = "write"
    /\ ready(p)
    /\ loc' = [loc EXCEPT ![p] = [@ EXCEPT !.tmp = Partial]]
    /\ goto(p, "tmp_write")
    /\ UNCHANGED <<files, inv, exit, out, seen, wrote>>

\* writeFileSync(tmpPath, contents): the contents are written, the file closed
writeFileAtomic_write(p) ==
    /\ pc[p] = "tmp_write"
    /\ loc' = [loc EXCEPT ![p] = [@ EXCEPT !.tmp = claimStepData(inv[p].worker)]]
    /\ goto(p, "tmp_rename")
    /\ UNCHANGED <<files, inv, exit, out, seen, wrote>>

\* renameSync(tmpPath, filePath)
writeFileAtomic_rename(p) ==
    /\ pc[p] = "tmp_rename"
    /\ stepFile' = [stepFile EXCEPT ![inv[p].step] = loc[p].tmp]
    /\ pc' = [pc EXCEPT ![p] = "done"]
    /\ exit' = [exit EXCEPT ![p] = "ok"]
    /\ loc' = [loc EXCEPT ![p] = NoLoc]
    /\ touch(p, "stepFile")
    /\ UNCHANGED <<ledger, stateLock, stepLock, progress, validation, inv, out, seen>>

\* writeFileSync or renameSync throws: unlinkSync(tmpPath), fail()
writeFileAtomic_catch(p) ==
    /\ pc[p] \in {"tmp_write", "tmp_rename"}
    /\ fail(p, "Failed to write file")
    /\ UNCHANGED <<files, inv, out, seen, wrote>>

\* the process is killed during the write; its temporary file stays
crash(p) ==
    /\ pc[p] \in {"tmp_write", "tmp_rename"}
    /\ pc' = [pc EXCEPT ![p] = "crashed"]
    /\ exit' = [exit EXCEPT ![p] = "killed"]
    /\ UNCHANGED <<files, inv, loc, out, seen, wrote>>

\* a claim or complete invocation is killed between two of its file-system
\* calls: nothing runs after that, no catch and no finally, and what it
\* wrote stays
kill(p) ==
    /\ inv[p].op \in {"claim", "complete"}
    /\ pc[p] \notin {"start", "done", "crashed"}
    /\ pc' = [pc EXCEPT ![p] = "crashed"]
    /\ exit' = [exit EXCEPT ![p] = "killed"]
    /\ UNCHANGED <<files, inv, loc, out, seen, wrote>>

\* the steps directory: the step files and the temporary files present
stepsDir ==
    [name \in {stepPath(s) : s \in Steps}
              \cup {tmpPath(stepPath(inv[q].step), q) :
                       q \in {r \in DOMAIN pc : inv[r].op = "write"}} |->
        IF Len(name) = 2 THEN stepFile[name[1]]
        ELSE loc[CHOOSE q \in DOMAIN pc : PidNames[q] = name[4]].tmp]

\* a reader: readdirSync(stepsDir).filter(f => f.endsWith('.json')), or the
\* path of a step file, then the read of one of these files
observe(p) ==
    /\ pc[p] = "start"
    /\ inv[p].op = "observe"
    /\ ready(p)
    /\ \E name \in {n \in DOMAIN stepsDir : endsWith(n, ".json")} :
         out' = [out EXCEPT ![p] = [kind |-> "observed", name |-> name,
                                    content |-> stepsDir[name]]]
    /\ pc' = [pc EXCEPT ![p] = "done"]
    /\ exit' = [exit EXCEPT ![p] = "ok"]
    /\ UNCHANGED <<files, inv, loc, seen, wrote>>

\* ------------------------------------------------------------ failures
\* writeJsonAtomic(stateFileAbs, latestState) when writeFileSync or renameSync
\* throws: writeFileAtomic removes the temporary file and calls fail()
fn_write_fails(p) ==
    /\ pc[p] = "fn_write"
    /\ fail(p, "Failed to write file")
    /\ UNCHANGED <<files, inv, out, seen, wrote>>

\* writeJsonAtomic(stepFileAbs, stepData) of claimStep when it fails: when
\* writeFileSync or renameSync throws, writeFileAtomic calls fail() and the
\* catch block of claimStep is never entered; when mkdirSync throws, outside
\* the try block of writeFileAtomic, the catch block of claimStep unlinks the
\* lock and then calls fail()
claimStep_write_fails(p) ==
    /\ pc[p] = "claim_write"
    /\ \/ /\ fail(p, "Failed to write file")
          /\ UNCHANGED <<stepLock, wrote>>
       \/ /\ stepLock' = [stepLock EXCEPT ![inv[p].step] = NoFile]
          /\ fail(p, "Failed to write step file")
          /\ touch(p, "stepLock")
    /\ UNCHANGED <<ledger, stateLock, stepFile, progress, validation, inv, out, seen>>

\* ------------------------------------------------------------ ralph-state-read.mjs
\* argv of ralph-state-read.mjs
ReadInv(aft) == [op |-> "read", after |-> aft]

\* a scan that orders the records by the first digit of their file names
isNewer_FirstDigit(name, bestIter) == name[1] > bestIter

\* a scan that keeps the first record it could read
isNewer_KeepsFirst(name, bestIter) == bestIter = -1

\* if (n > bestIter) of readLatestValidation
isNewer(name, bestIter) == parseInt(name) > bestIter

\* the loop of readLatestValidation over readdirSync's listing, given as a
\* sequence of file names; the result is <<best, bestIter>>
RECURSIVE scanValidation(_, _, _)
scanValidation(dir, listing, acc) ==
    IF listing = << >> THEN acc
    ELSE LET name == Head(listing)
             candidate == dir[name]
         IN  scanValidation(dir, Tail(listing),
                 IF isNewer(name, acc[2]) /\ candidate.kind = "json"
                 THEN <<candidate, parseInt(name)>>
                 ELSE acc)

\* readLatestValidation(stateDir, iteration)
readLatestValidation(dir, listing, iteration) ==
    IF Digits(iteration) \in DOMAIN dir /\ dir[Digits(iteration)].kind = "json"
    THEN dir[Digits(iteration)]
    ELSE scanValidation(dir, listing, <<NoFile, -1>>)[1]

\* the listings readdirSync may return: the files present, in any order
Listings(dir) ==
    LET present == {n \in DOMAIN dir : dir[n].kind # "absent"}
    IN  {q \in [1..Cardinality(present) -> present] :
            \A i, j \in DOMAIN q : i # j => q[i] # q[j]}

\* an index that trusts the ledger and never looks at the step files
aggregateIndex_LedgerOnly(state, stepFiles) == seedIndex(state)

\* readStepFiles and the index of aggregateState: the ledger's steps overlaid
\* with the step files that parse
aggregateIndex(state, stepFiles) ==
    [s \in Steps |->
        LET current == seedIndex(state)[s]
        IN  IF stepFiles[s].kind = "json" THEN overlay(current, stepFiles[s]) ELSE current]

\* A number field of the ledger: a positive number, 0 for null, -1 for a
\* ledger that has no such field (undefined).
\* state.maxIterations === null
isNull(v) == v = 0
\* state.iteration < state.maxIterations, which is false when maxIterations is
\* undefined (it converts to NaN) and compares with 0 when it is null
jsLess(a, b) == IF b = -1 THEN FALSE ELSE a < b

\* aggregateState(config, state)
aggregateState(state, stepFiles, lastValidation) ==
    LET index == aggregateIndex(state, stepFiles)
        withStatus(st) == {s \in Steps : index[s].present /\ index[s].status = st}
        isComplete == IF lastValidation.kind = "json"
                      THEN lastValidation.overallComplete ELSE FALSE
    IN  [kind |-> "snapshot",
         iteration |-> state.iteration,
         completedStepIds |-> withStatus("complete"),
         pendingSteps |-> withStatus("pending"),
         inProgressSteps |-> withStatus("in-progress"),
         failedSteps |-> withStatus("failed"),
         lastValidation |-> lastValidation,
         isComplete |-> isComplete,
         canContinue |-> ~isComplete /\ (isNull(state.maxIterations)
                                         \/ jsLess(state.iteration, state.maxIterations)),
         workers |-> state.workers,
         monitors |-> state.monitors]

\* a reader that stores the record it selected in the ledger
stateRead_Caching(p) ==
    /\ pc[p] = "start"
    /\ inv[p].op = "read"
    /\ ready(p)
    /\ ledger.kind = "json"
    /\ \E listing \in Listings(validation) :
         LET latest == readLatestValidation(validation, listing, ledger.iteration)
         IN  /\ out' = [out EXCEPT ![p] = aggregateState(ledger, stepFile, latest)]
             /\ ledger' = [ledger EXCEPT !.lastValidation = latest]
    /\ pc' = [pc EXCEPT ![p] = "done"]
    /\ exit' = [exit EXCEPT ![p] = "ok"]
    /\ touch(p, "ledger")
    /\ UNCHANGED <<stateLock, stepFile, stepLock, progress, validation, inv, loc, seen>>

\* main of ralph-state-read.mjs: readState, aggregateState, console.log
stateRead(p) ==
    /\ pc[p] = "start"
    /\ inv[p].op = "read"
    /\ ready(p)
    /\ IF ledger.kind # "json"
       THEN /\ fail(p, IF ledger.kind = "absent" THEN "State file not found"
                       ELSE "Failed to read state file")
            /\ UNCHANGED out
       ELSE /\ \E listing \in Listings(validation) :
                 out' = [out EXCEPT ![p] = aggregateState(ledger, stepFile,
                            readLatestValidation(validation, listing, ledger.iteration))]
            /\ pc' = [pc EXCEPT ![p] = "done"]
            /\ exit' = [exit EXCEPT ![p] = "ok"]
            /\ UNCHANGED loc
    /\ UNCHANGED <<files, inv, seen, wrote>>

\* ------------------------------------------------------------ runs
\* the ledger after ralph-init.mjs, with the steps of the task breakdown either
\* declared pending (as the self-test declares them) or not declared
declared(state) == [state EXCEPT !.steps = [s \in Steps |-> DeclaredEntry]]

Ledgers(promises) ==
    {initialState(c, 0) : c \in promises}
    \cup {declared(initialState(c, 0)) : c \in promises}

InitProcs(P) ==
    /\ pc = [p \in P |-> "start"]
    /\ loc = [p \in P |-> NoLoc]
    /\ exit = [p \in P |-> ""]
    /\ out = [p \in P |-> NoOut]
    /\ seen = [p \in P |-> ""]
    /\ wrote = [p \in P |-> {}]

InitFiles(ledgers, stepFiles) ==
    /\ ledger \in ledgers
    /\ stateLock = NoFile
    /\ stepFile \in [Steps -> stepFiles]
    /\ stepLock = [s \in Steps |-> NoFile]
    /\ progress = [w \in Workers |-> NoFile]
    /\ validation = [n \in ValNames |-> NoFile]

\* Processes that run the same command line are interchangeable: the command
\* lines of a run are drawn in the order of their kind numbers.
inOrder(g) == \A p \in DOMAIN g : p + 1 \in DOMAIN g => g[p] <= g[p + 1]

\* claim kinds: a step and whether --force-overwrite is given
ClaimKinds == 0..(2 * NumSteps - 1)
claimOfKind(k, w) == ClaimInv(StepNames[(k \div 2) + 1], w, k % 2 = 1, 0)

\* N claim invocations by distinct owners
claimRace(stepFiles) ==
    /\ InitFiles(Ledgers({"null"}), stepFiles)
    /\ \E g \in [1..MaxProcs -> ClaimKinds] :
         /\ inOrder(g)
         /\ inv = [p \in 1..MaxProcs |-> claimOfKind(g[p], WorkerNames[p])]
    /\ InitProcs(1..MaxProcs)

\* ... on steps that may have been claimed or completed by an earlier worker
\* whose lock is gone
InitReclaim ==
    claimRace({PendingStep, claimStepData("w4"), StepJson("complete", "w4", 1, "null")})

\* two complete invocations on the first step, whose file and lock are as any
\* earlier run may have left them, and a claim of the second step
InitAdmit ==
    /\ ledger = declared(initialState("null", 0))
    /\ stateLock = NoFile
    /\ \E f \in {PendingStep, claimStepData("w1"), StepJson("complete", "w1", 1, "null")},
          l \in {NoFile, LockJson("w1", 0), LockJson("w2", 0)} :
         /\ stepFile = [s \in Steps |-> IF s = StepNames[1] THEN f ELSE NoFile]
         /\ stepLock = [s \in Steps |-> IF s = StepNames[1] THEN l ELSE NoFile]
    /\ progress = [w \in Workers |-> NoFile]
    /\ validation = [n \in ValNames |-> NoFile]
    /\ \E w1 \in {"w1", "w2", "null"}, w2 \in {"w1", "w2", "null"} :
         inv = <<CompleteInv(StepNames[1], w1, "null", 0),
                 CompleteInv(StepNames[1], w2, "null", 0),
                 ClaimInv(StepNames[2], "w2", FALSE, 0)>>
    /\ InitProcs(1..3)

\* a claim of the first step and the complete that follows it, either of
\* which may be killed, while ralph-state-read.mjs runs once at any moment;
\* the second step is as an earlier run left it
InitCrash ==
    /\ ledger \in Ledgers({"null"})
    /\ stateLock = NoFile
    /\ \E f \in {NoFile, PendingStep, Corrupt, claimStepData("w2"),
                  StepJson("complete", "w2", 1, "null")} :
         stepFile = [s \in Steps |-> IF s = StepNames[2] THEN f ELSE NoFile]
    /\ stepLock = [s \in Steps |-> NoFile]
    /\ progress = [w \in Workers |-> NoFile]
    /\ validation = [n \in ValNames |-> NoFile]
    /\ inv = <<ClaimInv(StepNames[1], "w1", FALSE, 0),
               CompleteInv(StepNames[1], "w1", "null", 1),
               ReadInv(0)>>
    /\ InitProcs(1..3)

\* what the ledger may cache for a step: nothing, the declaration, or a
\* completion
CompleteEntry == [present |-> TRUE, status |-> "complete", worker |-> "w1", completedAt |-> 1]
LedgerEntries == {NoEntry, DeclaredEntry, CompleteEntry}

\* one validation on any state directory: each step declared in the ledger or
\* not, cached as pending or complete, its file absent, unparseable or of
\* any status
InitValid ==
    /\ \E e \in [Steps -> LedgerEntries] :
         ledger = [initialState("null", 0) EXCEPT !.steps = e]
    /\ stateLock = NoFile
    /\ stepFile \in [Steps -> {NoFile, PendingStep, Corrupt, claimStepData("w1"),
                               StepJson("complete", "w1", 1, "null")}]
    /\ stepLock = [s \in Steps |-> NoFile]
    /\ progress = [w \in Workers |-> NoFile]
    /\ validation = [n \in ValNames |-> NoFile]
    /\ inv = <<ValidateInv(0, "m1", "notrun", 0)>>
    /\ InitProcs(1..1)

\* two claims of the first step, one of them forced, and a claim of the
\* second, any of which may be killed, and a cleanup of the lock files
InitOrphan ==
    /\ InitFiles({declared(initialState("null", 0))}, {NoFile})
    /\ inv = <<ClaimInv(StepNames[1], "w1", FALSE, 0),
               ClaimInv(StepNames[1], "w2", TRUE, 0),
               ClaimInv(StepNames[2], "w3", FALSE, 0),
               CleanupInv(0)>>
    /\ InitProcs(1..4)

\* one owner claims both steps and completes each once its claim has ended,
\* with or without --worker-id
InitProgress ==
    /\ InitFiles({declared(initialState("null", 0))}, {NoFile, PendingStep})
    /\ \E wa \in {"w1", "null"}, wb \in {"w1", "null"} :
         inv = <<ClaimInv(StepNames[1], "w1", FALSE, 0),
                 ClaimInv(StepNames[2], "w1", FALSE, 0),
                 CompleteInv(StepNames[1], wa, "null", 1),
                 CompleteInv(StepNames[2], wb, "null", 2)>>
    /\ InitProcs(1..4)

\* a claim and the complete that follows it, while ralph-cleanup.mjs --archive
\* runs; a lock left by an earlier run may be on the second step
InitArchive ==
    /\ ledger = declared(initialState("null", 0))
    /\ stateLock = NoFile
    /\ stepFile = [s \in Steps |-> NoFile]
    /\ stepLock \in {[s \in Steps |-> NoFile],
                     [s \in Steps |-> IF s = StepNames[2] THEN LockJson("w2", 0) ELSE NoFile]}
    /\ progress = [w \in Workers |-> NoFile]
    /\ validation = [n \in ValNames |-> NoFile]
    /\ inv = <<ClaimInv(StepNames[1], "w1", FALSE, 0),
               CompleteInv(StepNames[1], "w1", "null", 1),
               ArchiveInv(0)>>
    /\ InitProcs(1..3)

\* a claim, the complete that follows it, a validation and a cleanup of the
\* lock files
InitCleanup ==
    /\ InitFiles(Ledgers({"null"}), {NoFile, PendingStep})
    /\ \E tst \in {"notrun", "fail"} :
         inv = <<ClaimInv(StepNames[1], "w1", FALSE, 0),
                 CompleteInv(StepNames[1], "w1", "null", 1),
                 ValidateInv(0, "m1", tst, 0),
                 CleanupInv(0)>>
    /\ InitProcs(1..4)

\* a claim and the complete that follows it, while ralph-cleanup.mjs runs with
\* any --state-dir and any choice of --remove-all and --force, followed by a
\* forced --remove-all; a lock left by an earlier run may be on the second step
InitRemoval ==
    /\ ledger = declared(initialState("null", 0))
    /\ stateLock = NoFile
    /\ stepFile = [s \in Steps |-> NoFile]
    /\ stepLock \in {[s \in Steps |-> NoFile],
                     [s \in Steps |-> IF s = StepNames[2] THEN LockJson("w2", 0) ELSE NoFile]}
    /\ progress = [w \in Workers |-> NoFile]
    /\ validation = [n \in ValNames |-> NoFile]
    /\ \E dir \in StateDirs, ra \in BOOLEAN, f \in BOOLEAN :
         inv = <<ClaimInv(StepNames[1], "w1", FALSE, 0),
                 CompleteInv(StepNames[1], "w1", "null", 1),
                 CleanupArgs(dir, ra, f, 0),
                 CleanupArgs(DEFAULT_STATE_DIR, TRUE, TRUE, 3)>>
    /\ InitProcs(1..4)

\* ... on steps never claimed before
InitClaims == claimRace({NoFile, PendingStep})

\* ... on steps whose file may be unparseable
InitCorrupt == claimRace({NoFile, PendingStep, Corrupt})

\* worker kinds: on the first step a claim by w1 or w2, or a complete with
\* --worker-id w1, w2 or none; on the second step a claim by w1
WorkerKinds == 0..5
workerOfKind(k) ==
    IF k < 2 THEN ClaimInv(StepNames[1], WorkerNames[k + 1], FALSE, 0)
    ELSE IF k < 5
    THEN CompleteInv(StepNames[1], IF k = 4 THEN "null" ELSE WorkerNames[k - 1], "null", 0)
    ELSE ClaimInv(StepNames[2], WorkerNames[1], FALSE, 0)

\* any claim and complete invocations, launched in any order
InitWorkers ==
    /\ InitFiles({declared(initialState("null", 0))}, {NoFile, PendingStep})
    /\ \E g \in [1..MaxProcs -> WorkerKinds] :
         /\ inOrder(g)
         /\ inv = [p \in 1..MaxProcs |-> workerOfKind(g[p])]
    /\ InitProcs(1..MaxProcs)

\* the fan-out of the self-test: step i is claimed by owner i and, once that
\* claim has ended, completed by owner i; a monitor validates meanwhile
FanClaims == 1..NumSteps
FanCompletes == (NumSteps + 1)..(2 * NumSteps)
FanMonitor == 2 * NumSteps + 1

InitFanOut ==
    /\ InitFiles(Ledgers({"null"}), {NoFile, PendingStep})
    /\ \E r \in [FanCompletes -> {"null"}], tst \in {"notrun", "fail"} :
         inv = [p \in 1..FanMonitor |->
                   IF p \in FanClaims THEN ClaimInv(StepNames[p], WorkerNames[p], FALSE, 0)
                   ELSE IF p \in FanCompletes
                   THEN CompleteInv(StepNames[p - NumSteps], WorkerNames[p - NumSteps],
                                    r[p], p - NumSteps)
                   ELSE ValidateInv(0, "m1", tst, 0)]
    /\ InitProcs(1..FanMonitor)

\* a fresh directory: two initializations and a claim that follows the first
InitFresh ==
    /\ InitFiles({NoFile}, {NoFile, PendingStep})
    /\ \E c \in [1..2 -> {"null", "P"}], s \in Steps :
         inv = <<InitInv(c[1], 0, 0), InitInv(c[2], 0, 0),
                 ClaimInv(s, "w1", FALSE, 1)>>
    /\ InitProcs(1..3)

\* the reader: validation records of any content, the ledger at any iteration
ValRecord(n, oc) ==
    [kind |-> "json", iteration |-> n, monitorId |-> "m1", allStepsComplete |-> oc,
     testsPassing |-> "null", promiseFound |-> FALSE, overallComplete |-> oc,
     notes |-> << >>, timestamp |-> 0]

InitRead ==
    /\ \E it \in IterNums \cup {3}, mx \in {0, 1, 2} :
         ledger = [declared(initialState("null", mx)) EXCEPT !.iteration = it]
    /\ stateLock = NoFile
    /\ stepFile \in [Steps -> {NoFile, PendingStep}]
    /\ stepLock = [s \in Steps |-> NoFile]
    /\ progress = [w \in Workers |-> NoFile]
    /\ validation \in {f \in [ValNames -> {NoFile, Corrupt}
                                 \cup {ValRecord(n, oc) : n \in IterNums, oc \in BOOLEAN}] :
                          \A n \in ValNames : f[n].kind = "json" => f[n].iteration = parseInt(n)}
    /\ inv = <<ReadInv(0)>>
    /\ InitProcs(1..1)

\* the scenario of the documentation: steps a and b declared pending, no
\* completion promise, no --max-iterations; claim a by w1, claim b by w2,
\* complete a, complete b, a validation that runs no tests, a read; each
\* invocation is launched when the one before has ended
InitScenario ==
    /\ InitFiles({declared(initialState("null", 0))}, {NoFile, PendingStep})
    /\ \E wa \in {"w1", "null"}, wb \in {"w2", "null"}, tst \in {"notrun", "undetected"} :
         inv = <<ClaimInv(StepNames[1], "w1", FALSE, 0),
                 ClaimInv(StepNames[2], "w2", FALSE, 1),
                 CompleteInv(StepNames[1], wa, "null", 2),
                 CompleteInv(StepNames[2], wb, "null", 3),
                 ValidateInv(0, "m1", tst, 4),
                 ReadInv(5)>>
    /\ InitProcs(1..6)

\* a lock file nobody will remove: its creator ended without removing it
StaleLock == [kind |-> "json", pid |-> 0]

\* two claims of distinct steps while ralph-state.lock is absent or stale
InitTimeout ==
    /\ ledger = declared(initialState("null", 0))
    /\ stateLock \in {NoFile, StaleLock}
    /\ stepFile = [s \in Steps |-> NoFile]
    /\ stepLock = [s \in Steps |-> NoFile]
    /\ progress = [w \in Workers |-> NoFile]
    /\ validation = [n \in ValNames |-> NoFile]
    /\ inv = <<ClaimInv(StepNames[1], "w1", FALSE, 0), ClaimInv(StepNames[2], "w2", FALSE, 0)>>
    /\ InitProcs(1..2)

\* two writers of step files and two readers of the steps directory
InitAtomic ==
    /\ InitFiles({declared(initialState("null", 0))}, {NoFile, PendingStep})
    /\ \E s \in Steps :
         inv = <<WriteInv(StepNames[1], "w1", 0), WriteInv(s, "w2", 0),
                 ObserveInv(0), ObserveInv(0)>>
    /\ InitProcs(1..4)

\* a claim of step a and the complete that follows it, while two monitors
\* validate: the ledger with or without a completion promise and with the
\* steps declared or not, the result of the step with or without the promise,
\* the tests not run, not detected, passing or failing
InitMonitors ==
    /\ InitFiles(Ledgers({"null", "P"}), {NoFile})
    /\ \E r \in {"null", "promise"}, t1 \in {"notrun", "pass", "fail"},
          t2 \in {"notrun", "undetected"}, n \in {0, 2} :
         inv = <<ClaimInv(StepNames[1], "w1", FALSE, 0),
                 CompleteInv(StepNames[1], "w1", r, 1),
                 ValidateInv(0, "m1", t1, 0),
                 ValidateInv(n, "m2", t2, 0)>>
    /\ InitProcs(1..4)

\* the reader on any state directory: the ledger absent, unparseable or
\* readable, locks left or held, step files and validation records of any kind
InitDisk ==
    /\ ledger \in {NoFile, Corrupt}
                  \cup {[declared(initialState(c, mx)) EXCEPT !.iteration = it] :
                           c \in {"null", "P"}, mx \in {-1, 0, 2}, it \in {1, 2}}
    /\ stateLock \in {NoFile, StaleLock}
    /\ stepFile \in [Steps -> {NoFile, PendingStep, Corrupt, claimStepData("w1")}]
    /\ stepLock \in [Steps -> {NoFile, LockJson("w1", 0)}]
    /\ progress = [w \in Workers |-> NoFile]
    /\ validation \in [ValNames -> {NoFile, Corrupt}
                          \cup {ValRecord(n, oc) : n \in IterNums, oc \in BOOLEAN}]
    /\ \A n \in ValNames : validation[n].kind = "json" => validation[n].iteration = parseInt(n)
    /\ inv = <<ReadInv(0)>>
    /\ InitProcs(1..1)

claimSteps(p) ==
    \/ Start(p)
    \/ claimStep_check(p)
    \/ claimStep_lock(p)
    \/ claimStep_write(p)

completeSteps(p) ==
    \/ completeStep_read(p)
    \/ completeStep_lock(p)
    \/ completeStep_write(p)
    \/ completeStep_progress_read(p)
    \/ completeStep_progress_write(p)
    \/ completeStep_unlock(p)

validateSteps(p) ==
    \/ validate_list(p)
    \/ validate_scan(p)
    \/ validate_record(p)

lockSteps(p) ==
    \/ withLock_acquire(p)
    \/ fn_read(p)
    \/ fn_write(p)
    \/ withLock_release(p)

initSteps(p) ==
    \/ initializeState_check(p)
    \/ initializeState_write(p)

cleanupSteps(p) ==
    \/ cleanupLocks_list(p)
    \/ cleanupLocks_unlink(p)
    \/ cleanupLocks_state(p)

\* ralph-cleanup.mjs with --archive
archiveSteps(p) == archiveFiles(p)

\* ralph-cleanup.mjs with --state-dir, --remove-all and --force
removalSteps(p) ==
    \/ cleanup_parseArgs_fails(p)
    \/ cleanup_refuse(p)
    \/ cleanupLocks_none(p)
    \/ removeAll(p)

NextClaims == \E p \in DOMAIN pc : claimSteps(p) \/ lockSteps(p)
NextWorkers == \E p \in DOMAIN pc : claimSteps(p) \/ completeSteps(p) \/ lockSteps(p)
NextFanOut ==
    \E p \in DOMAIN pc : claimSteps(p) \/ completeSteps(p) \/ validateSteps(p) \/ lockSteps(p)
NextFresh == \E p \in DOMAIN pc : initSteps(p) \/ claimSteps(p) \/ lockSteps(p)
NextFault ==
    \E p \in DOMAIN pc :
        \/ claimSteps(p) \/ lockSteps(p)
        \/ fn_write_fails(p) \/ claimStep_write_fails(p)
NextCleanup ==
    \E p \in DOMAIN pc :
        \/ claimSteps(p) \/ completeSteps(p) \/ validateSteps(p) \/ lockSteps(p)
        \/ cleanupSteps(p)
NextRemoval ==
    \E p \in DOMAIN pc :
        \/ claimSteps(p) \/ completeSteps(p) \/ lockSteps(p)
        \/ cleanupSteps(p) \/ removalSteps(p)
NextCrash ==
    \E p \in DOMAIN pc :
        \/ claimSteps(p) \/ completeSteps(p) \/ lockSteps(p)
        \/ kill(p)
        \/ stateRead(p)
NextValid == \E p \in DOMAIN pc : Start(p) \/ validateSteps(p) \/ lockSteps(p)
NextOrphan ==
    \E p \in DOMAIN pc :
        \/ claimSteps(p) \/ lockSteps(p)
        \/ kill(p)
        \/ cleanupSteps(p)
NextArchive ==
    \E p \in DOMAIN pc :
        \/ claimSteps(p) \/ completeSteps(p) \/ lockSteps(p)
        \/ cleanupSteps(p) \/ archiveSteps(p)
NextRead == \E p \in DOMAIN pc : stateRead(p)

NextScenario ==
    \E p \in DOMAIN pc :
        \/ claimSteps(p) \/ completeSteps(p) \/ validateSteps(p) \/ lockSteps(p)
        \/ stateRead(p)

\* the steps of one process when the clock of withLock is followed
timedSteps(p) ==
    \/ claimSteps(p) \/ lockSteps(p)
    \/ withLock_retry(p)
    \/ withLock_timeout(p)

NextTimeout == \E p \in DOMAIN pc : timedSteps(p)

NextAtomic ==
    \E p \in DOMAIN pc :
        \/ writeFileAtomic_open(p)
        \/ writeFileAtomic_write(p)
        \/ writeFileAtomic_rename(p)
        \/ writeFileAtomic_catch(p)
        \/ crash(p)
        \/ observe(p)

NextMonitors ==
    \E p \in DOMAIN pc : claimSteps(p) \/ completeSteps(p) \/ validateSteps(p) \/ lockSteps(p)

SpecClaims == InitClaims /\ [][NextClaims]_vars
SpecCorrupt == InitCorrupt /\ [][NextClaims]_vars
SpecReclaim == InitReclaim /\ [][NextClaims]_vars
SpecAdmit == InitAdmit /\ [][NextWorkers]_vars
SpecCrash == InitCrash /\ [][NextCrash]_vars
SpecValid == InitValid /\ [][NextValid]_vars
SpecOrphan == InitOrphan /\ [][NextOrphan]_vars
SpecProgress == InitProgress /\ [][NextWorkers]_vars
SpecArchive == InitArchive /\ [][NextArchive]_vars
SpecWorkers == InitWorkers /\ [][NextWorkers]_vars
SpecFanOut == InitFanOut /\ [][NextFanOut]_vars
SpecFresh == InitFresh /\ [][NextFresh]_vars
SpecFault == InitClaims /\ [][NextFault]_vars
SpecCleanup == InitCleanup /\ [][NextCleanup]_vars
SpecRead == InitRead /\ [][NextRead]_vars

SpecScenario == InitScenario /\ [][NextScenario]_vars

\* every process is scheduled again and again
SpecTimeout ==
    /\ InitTimeout
    /\ [][NextTimeout]_vars
    /\ \A p \in 1..2 : WF_vars(timedSteps(p))

SpecAtomic == InitAtomic /\ [][NextAtomic]_vars

SpecMonitors == InitMonitors /\ [][NextMonitors]_vars

SpecRemoval == InitRemoval /\ [][NextRemoval]_vars
SpecDisk == InitDisk /\ [][NextRead]_vars

\* ------------------------------------------------------------ properties
claimsOf(s) == {p \in DOMAIN pc : inv[p].op = "claim" /\ inv[p].step = s}
finished(P) == \A p \in P : pc[p] = "done"
Contention == {"already in-progress", "currently locked"}

\* the processes inside the critical section of withLock
inCritical == {p \in DOMAIN pc : pc[p] \in {"fn_read", "fn_write", "release"}}

\* C1: when two or more claims by distinct owners race for a step whose file
\* is absent or pending and whose lock is absent, then once all of them have
\* ended exactly one has exited successfully, every other one has exited with
\* a contention failure, and the step file is in-progress with the winner as
\* its owner.
C1_Exclusivity ==
    \A s \in Steps :
        (Cardinality(claimsOf(s)) >= 2 /\ finished(claimsOf(s))) =>
            \E win \in claimsOf(s) :
                /\ exit[win] = "ok"
                /\ \A q \in claimsOf(s) \ {win} : exit[q] \in Contention
                /\ stepFile[s] = claimStepData(inv[win].worker)

\* a race for one step that ended with both kinds of contention failure
C1_Witness ==
    \E s \in Steps :
        /\ finished(claimsOf(s))
        /\ \E p, q, r \in claimsOf(s) :
              /\ exit[p] = "ok"
              /\ exit[q] = "currently locked"
              /\ exit[r] = "already in-progress"

\* C2: when M distinct steps are claimed by M distinct owners and then
\* completed, with a validation running meanwhile, then once every invocation
\* has ended each has succeeded, the ledger's steps map shows every one of the
\* M steps complete and its workers list holds all M owners: no fold is lost.
C2_LosslessFanOut ==
    finished(DOMAIN pc) =>
        /\ \A p \in DOMAIN pc : exit[p] = "ok"
        /\ \A p \in DOMAIN pc :
              inv[p].op \in {"claim", "complete"} =>
                  /\ ledger.steps[inv[p].step].status = "complete"
                  /\ InSeq(inv[p].worker, ledger.workers)
        /\ \A p \in DOMAIN pc :
              inv[p].op = "validate" => InSeq(inv[p].monitorId, ledger.monitors)

\* every invocation of the fan-out has ended, after two of them met at the
\* ledger mutex
C2_Witness ==
    /\ finished(DOMAIN pc)
    /\ Cardinality({s \in Steps : ledger.steps[s].status = "complete"}) >= 2
    /\ ledger.lastValidation.kind = "json"

\* the moves of a step file between two states of the directory
legalMove(a, b) ==
    IF b.kind # "json" \/ a.kind = "corrupt" THEN TRUE
    ELSE IF a.kind = "absent" \/ a.status = "pending"
         THEN b.status \in {"pending", "in-progress"}
    ELSE IF a.status = "in-progress"
         THEN \/ b.status = "in-progress" /\ b.worker = a.worker
              \/ b.status \in {"complete", "failed"}
    ELSE b.status = a.status

\* C3: the status of a readable step file only moves from pending (or no
\* file) to in-progress and from in-progress to complete or failed: a complete
\* step never goes back to in-progress, and the owner of an in-progress step is
\* never replaced.
C3_Transitions == [][\A s \in Steps : legalMove(stepFile[s], stepFile'[s])]_vars

\* C4: every write of the ledger is made by a process that holds the ledger
\* mutex, and writes the fold of the copy it read while holding it.
C4_WriteDiscipline ==
    [][ledger' # ledger =>
          \E p \in DOMAIN pc :
              /\ pc[p] = "fn_write"
              /\ stateLock = [kind |-> "json", pid |-> p]
              /\ ledger' = folded(p)]_vars

\* the cleanup invocations that have unlinked ralph-state.lock
unlinkedStateLock ==
    {c \in DOMAIN pc : inv[c].op = "cleanup" /\ "stateLock" \in wrote[c]}

\* C5 as stated, cleanup included: at most one process is inside the critical
\* section of the ledger mutex.
C5_MutexUnderCleanup == Cardinality(inCritical) <= 1

\* C5, amended: under any interleaving of claim, complete and validate
\* invocations, and for as long as no cleanup invocation has unlinked
\* ralph-state.lock, at most one process is inside the critical section of the
\* ledger mutex, and the lock file is the one that process created.
C5_Mutex ==
    unlinkedStateLock = {} =>
        /\ Cardinality(inCritical) <= 1
        /\ \A p \in inCritical : stateLock = [kind |-> "json", pid |-> p]

\* a process is inside the critical section, holding the lock it created,
\* while another one retries the exclusive creation
C5_Witness ==
    \E p, q \in DOMAIN pc :
        /\ pc[p] = "fn_write"
        /\ pc[q] = "acquire"
        /\ stateLock = [kind |-> "json", pid |-> p]
        /\ unlinkedStateLock = {}

\* C6: an operation that acquired the ledger mutex and has ended, on whatever
\* path, has removed the lock file it created.
C6_Released ==
    \A p \in DOMAIN pc :
        (pc[p] = "done" /\ "stateLock" \in wrote[p]) =>
            ~(stateLock.kind = "json" /\ stateLock.pid = p)

\* the step a process takes from the label `at`
leaves(p, at) == pc[p] = at /\ pc'[p] # at

\* C7: a complete of a step whose file is already complete, by the same owner
\* (given, or taken from the file), ends successfully, reports the completedAt
\* of the file, and has modified no file.
C7_Idempotent ==
    [][\A p \in DOMAIN pc :
          LET stepData == stepFile[inv[p].step]
          IN  (/\ leaves(p, "complete_read")
               /\ stepData.kind = "json"
               /\ stepData.status = "complete"
               /\ inv[p].worker \in {"null", stepData.worker}) =>
                  /\ pc'[p] = "done"
                  /\ exit'[p] = "ok"
                  /\ out'[p].kind = "already"
                  /\ out'[p].completedAt = stepData.completedAt
                  /\ files' = files
                  /\ wrote'[p] = {}]_vars

\* a complete has returned through the already-complete path, with the
\* timestamp of another invocation's completion
C7_Witness ==
    \E p \in DOMAIN pc :
        /\ pc[p] = "done"
        /\ inv[p].op = "complete"
        /\ seen[p] = "complete"
        /\ exit[p] = "ok"
        /\ out[p].completedAt # p

\* C8: a complete that gives an owner other than the one recorded in the
\* step file fails, and has changed no file.
C8_Ownership ==
    [][\A p \in DOMAIN pc :
          LET stepData == stepFile[inv[p].step]
          IN  (/\ leaves(p, "complete_read")
               /\ stepData.kind = "json"
               /\ inv[p].worker # "null"
               /\ inv[p].worker # stepData.worker) =>
                  /\ pc'[p] = "done"
                  /\ exit'[p] = "Worker ID mismatch"
                  /\ files' = files
                  /\ wrote'[p] = {}]_vars

\* a complete by another owner was refused on a step that is in progress
C8_Witness ==
    \E p \in DOMAIN pc :
        /\ exit[p] = "Worker ID mismatch"
        /\ seen[p] = "in-progress"
        /\ stepFile[inv[p].step].status = "in-progress"
        /\ stepFile[inv[p].step].worker # inv[p].worker

parseable == {n \in DOMAIN validation : validation[n].kind = "json"}
greatest ==
    CHOOSE n \in parseable : \A m \in parseable : parseInt(m) <= parseInt(n)
reads == {p \in DOMAIN pc : inv[p].op = "read" /\ pc[p] = "done" /\ exit[p] = "ok"}

\* C10: whenever records of several iterations parse, the read reports as
\* lastValidation the one with the numerically greatest iteration, and
\* isComplete is that record's overallComplete.
C10_AlwaysGreatest ==
    \A p \in reads :
        Cardinality(parseable) >= 2 =>
            /\ out[p].lastValidation = validation[greatest]
            /\ out[p].isComplete = validation[greatest].overallComplete

\* the monitor and the reader of the scenario
monitors == {p \in DOMAIN pc : inv[p].op = "validate"}
readers == {p \in DOMAIN pc : inv[p].op = "read"}

\* C11: in the scenario claim a by w1, claim b by w2, complete a, complete b,
\* validate without tests, read, on a ledger with a and b declared pending, no
\* promise and no max-iterations, the validation record has allStepsComplete
\* true, testsPassing null and overallComplete true, and the read that follows
\* reports isComplete true and canContinue false.
C11_Scenario ==
    /\ \A p \in monitors :
          pc[p] = "done" =>
              /\ exit[p] = "ok"
              /\ validation[Digits(1)].kind = "json"
              /\ validation[Digits(1)].allStepsComplete
              /\ validation[Digits(1)].testsPassing = "null"
              /\ validation[Digits(1)].overallComplete
    /\ \A p \in readers :
          pc[p] = "done" =>
              /\ exit[p] = "ok"
              /\ out[p].isComplete
              /\ ~out[p].canContinue
              /\ out[p].completedStepIds = Steps

\* the scenario has run to its end
C11_Witness ==
    /\ finished(DOMAIN pc)
    /\ \E p \in readers : out[p].kind = "snapshot" /\ out[p].lastValidation.iteration = 1
    /\ \A s \in Steps : stepFile[s].status = "complete"

\* C12: an operation that waits for the ledger mutex does not wait forever: it
\* enters its guarded function, which it does only by creating the lock file
\* when there was none, or it ends with 'Timed out acquiring lock'; and one
\* that ended so has neither created the lock nor written the ledger.
C12_BoundedWait ==
    /\ \A p \in 1..2 :
          (pc[p] = "acquire") ~>
              (pc[p] = "fn_read" \/ exit[p] = "Timed out acquiring lock")
    /\ [][\A p \in 1..2 :
             (pc[p] = "acquire" /\ pc'[p] # "acquire") =>
                 IF stateLock.kind = "absent"
                 THEN pc'[p] = "fn_read" /\ stateLock' = [kind |-> "json", pid |-> p]
                 ELSE /\ exit'[p] = "Timed out acquiring lock"
                      /\ loc[p].waited > timeoutMs
                      /\ files' = files]_vars
    /\ [](\A p \in 1..2 :
             exit[p] = "Timed out acquiring lock" =>
                 /\ pc[p] = "done"
                 /\ wrote[p] \cap {"ledger", "stateLock"} = {})

\* the lock file was there all along and both claims have timed out
C12_Witness ==
    /\ stateLock = StaleLock
    /\ \A p \in 1..2 : exit[p] = "Timed out acquiring lock"

\* C13: a file written through writeFileAtomic is never partially written:
\* whatever the point a writer has reached or was killed at, the file holds
\* its previous content or the whole content of one writer, and that is what
\* every reader of it has observed.
C13_CrashAtomic ==
    /\ \A s \in Steps :
          \/ stepFile[s] \in {NoFile, PendingStep}
          \/ \E q \in DOMAIN pc :
                /\ inv[q].op = "write"
                /\ inv[q].step = s
                /\ stepFile[s] = claimStepData(inv[q].worker)
    /\ \A p \in DOMAIN pc :
          out[p].kind = "observed" =>
              /\ out[p].content.kind # "partial"
              /\ \/ out[p].content \in {NoFile, PendingStep}
                 \/ \E q \in DOMAIN pc :
                       /\ inv[q].op = "write"
                       /\ stepPath(inv[q].step) = out[p].name
                       /\ out[p].content = claimStepData(inv[q].worker)

\* one writer was killed with its temporary file half written, another one
\* has replaced the same step file, and a reader has read the new content
C13_Witness ==
    \E q, r, p \in DOMAIN pc :
        /\ inv[q].op = "write" /\ inv[r].op = "write"
        /\ pc[q] = "crashed" /\ loc[q].tmp = Partial
        /\ pc[r] = "done" /\ exit[r] = "ok" /\ inv[r].step = inv[q].step
        /\ out[p].kind = "observed"
        /\ out[p].content = claimStepData(inv[r].worker)

\* C14: a validation record that has been persisted is never changed
\* afterwards, not even by another validation of the same iteration.
C14_Immutable ==
    [][\A n \in ValNames :
          validation[n].kind = "json" => validation'[n] = validation[n]]_vars

\* the initializations of a run
inits == {p \in DOMAIN pc : inv[p].op = "init"}

\* C15: of any number of initializations of the same directory, one after the
\* other or at once, at most one succeeds; one that finds a ledger fails and
\* has written nothing.
C15_OnceOnly ==
    /\ Cardinality({p \in inits : exit[p] = "ok"}) <= 1
    /\ \A p \in inits :
          pc[p] = "done" =>
              \/ exit[p] = "ok"
              \/ exit[p] = "State file already exists" /\ wrote[p] = {}

\* C16: the read changes no file and creates none: the ledger, the step
\* files, the lock files, the progress records and the validation records are
\* after the read what they were before.
C16_PureRead ==
    [][\A p \in readers : leaves(p, "start") => files' = files /\ wrote'[p] = {}]_vars

\* a read has printed a snapshot of a directory that holds a ledger lock, a
\* step lock and an unparseable step file
C16_Witness ==
    \E p \in readers :
        /\ out[p].kind = "snapshot"
        /\ stateLock = StaleLock
        /\ \E s \in Steps : stepLock[s].kind = "json"
        /\ \E s \in Steps : stepFile[s] = Corrupt

\* the validation records present
records == {n \in ValNames : validation[n].kind = "json"}

\* C17: in every validation record overallComplete is true exactly when
\* allStepsComplete is true, testsPassing is not false, and no completion
\* promise is configured in the ledger or promiseFound is true.
C17_OutcomeFormula ==
    \A n \in records :
        validation[n].overallComplete <=>
            /\ validation[n].allStepsComplete
            /\ validation[n].testsPassing # "false"
            /\ (ledger.completionPromise = "null" \/ validation[n].promiseFound)

\* all steps are complete and the tests pass, and the record is held back
\* only by the promise, which is configured and was not found
C17_Witness ==
    /\ ledger.completionPromise # "null"
    /\ \E n \in records :
          /\ ~validation[n].overallComplete
          /\ validation[n].allStepsComplete
          /\ validation[n].testsPassing = "true"
          /\ ~validation[n].promiseFound

\* C18: in every snapshot isComplete is the overallComplete of the selected
\* validation record, and false when there is none; canContinue is true
\* exactly when isComplete is false and either no max-iterations is configured
\* (the field is null or absent) or the ledger's iteration is below it.
C18_SnapshotPredicates ==
    \A p \in reads :
        /\ out[p].isComplete = (IF out[p].lastValidation.kind = "json"
                                THEN out[p].lastValidation.overallComplete ELSE FALSE)
        /\ out[p].canContinue <=>
              /\ ~out[p].isComplete
              /\ \/ ledger.maxIterations \in {0, -1}
                 \/ ledger.iteration < ledger.maxIterations


\* the cleanup invocations
cleanups == {p \in DOMAIN pc : inv[p].op = "cleanup"}

\* C19: a cleanup invocation with --remove-all and without --force fails and
\* touches no file, lock files included; with --force, once its arguments are
\* accepted, the step at which it finishes leaves no coordination directory;
\* and what a cleanup removes is never the working directory.
C19_RemovalGated ==
    /\ [](\A p \in cleanups :
            /\ (inv[p].removeAll /\ ~inv[p].force) =>
                  /\ wrote[p] = {}
                  /\ out[p] = NoOut
                  /\ pc[p] \in {"start", "done"}
                  /\ pc[p] = "done" => exit[p] \notin {"", "ok"}
            /\ "stateDir" \in wrote[p] => resolve(inv[p].stateDir) # << >>)
    /\ [][\A p \in cleanups :
            (inv[p].removeAll /\ inv[p].force /\ pc[p] # "done" /\ pc'[p] = "done"
             /\ exit'[p] = "ok")
            => /\ "stateDir" \in wrote'[p] <=> existsDir(inv[p].stateDir)
               /\ (~existsDir(inv[p].stateDir))']_vars

\* a --remove-all without --force was refused while the lock of a worker and a
\* leftover lock were on disk, and the forced --remove-all that followed
\* removed the directory
C19_Witness ==
    /\ exit[3] = "Refusing --remove-all without --force"
    /\ wrote[3] = {}
    /\ out[4] = Removed(TRUE, "")
    /\ "stepLock" \notin wrote[4]
    /\ ledger = NoFile


\* C20: a claim that finds the step file readable with status in-progress or
\* complete fails with the "already" message, with or without
\* --force-overwrite, and has written neither step file, lock file nor ledger.
C20_AlreadyOwned ==
    \A p \in DOMAIN pc :
        (inv[p].op = "claim" /\ seen[p] \in {"in-progress", "complete"})
        => /\ pc[p] = "done"
           /\ exit[p] = "already " \o seen[p]
           /\ wrote[p] = {}
           /\ out[p] = NoOut

\* two forced claims were refused, one on a step completed before the run and
\* one on a step that a claim of the same run had just taken
C20_Witness ==
    \E p, q \in DOMAIN pc :
        /\ inv[p].force /\ exit[p] = "already complete"
        /\ inv[q].force /\ exit[q] = "already in-progress"
        /\ \E r \in DOMAIN pc : r # q /\ inv[r].step = inv[q].step /\ exit[r] = "ok"


\* the messages with which a claim is turned away by another owner
Rejections == {"already in-progress", "already complete", "currently locked"}

\* C21: a claim rejected because the step is already owned, or because it lost
\* the exclusive creation of the step lock, has written nothing, and the step
\* at which it is rejected leaves step file, step lock and ledger as they were.
C21_LoserWritesNothing ==
    /\ [](\A p \in DOMAIN pc :
            (inv[p].op = "claim" /\ exit[p] \in Rejections)
            => wrote[p] = {} /\ out[p] = NoOut)
    /\ [][\A p \in DOMAIN pc :
            (inv[p].op = "claim" /\ exit[p] = "" /\ exit'[p] \in Rejections)
            => UNCHANGED files]_vars

\* of two claims of one step, one lost the creation of the lock and the other
\* went on to own the step
C21_Witness ==
    \E p, q \in DOMAIN pc :
        /\ inv[p].op = "claim" /\ inv[q].op = "claim" /\ inv[p].step = inv[q].step
        /\ exit[p] = "currently locked" /\ wrote[p] = {}
        /\ exit[q] = "ok"
        /\ stepFile[inv[q].step] = claimStepData(inv[q].worker)
        /\ stepLock[inv[q].step] = LockJson(inv[q].worker, q)


\* the complete invocations
completes == {p \in DOMAIN pc : inv[p].op = "complete"}

\* the lock of the step of p exists and names the completing owner, which is
\* --worker-id or else the owner read from the step file
admitted(p) ==
    /\ stepLock[inv[p].step].kind = "json"
    /\ stepLock[inv[p].step].workerId = loc[p].workerId

\* C22: a complete invocation on a step not yet complete that finds the lock
\* file absent, or owned by another than the completing owner, fails at that
\* check without having changed step file, progress record or ledger; and the
\* step file passes to complete only by the write of an invocation that found
\* the lock present with a matching owner.
C22_Admission ==
    /\ [][\A p \in completes :
            (pc[p] = "complete_lock" /\ pc'[p] # pc[p])
            => IF admitted(p)
               THEN pc'[p] = "complete_write"
               ELSE /\ pc'[p] = "done" /\ exit'[p] \notin {"", "ok"}
                    /\ wrote'[p] = {}
                    /\ UNCHANGED files]_vars
    /\ [][\A p \in completes :
            (pc'[p] = "complete_write" /\ pc[p] # "complete_write")
            => pc[p] = "complete_lock" /\ admitted(p)]_vars
    /\ [][\A s \in Steps :
            (statusOf(stepFile[s]) # "complete" /\ statusOf(stepFile'[s]) = "complete")
            => \E p \in completes :
                  inv[p].step = s /\ pc[p] = "complete_write" /\ pc'[p] # pc[p]]_vars
    /\ [](\A p \in completes :
            exit[p] \in {"Lock file not found", "Lock file workerId mismatch"}
            => wrote[p] = {})

\* of two complete invocations on one step, one was turned away at the lock
\* check and the other was admitted and completed the step
C22_Witness ==
    /\ exit[1] \in {"Lock file not found", "Lock file workerId mismatch"}
    /\ exit[2] = "ok" /\ "stepFile" \in wrote[2]
    /\ statusOf(stepFile[StepNames[1]]) = "complete"


\* the claim and complete invocations on step s
workersOn(s) == {p \in DOMAIN pc : inv[p].op \in {"claim", "complete"} /\ inv[p].step = s}

\* C23: once every claim and complete invocation on a step has terminated,
\* the status that the ledger caches for the step is the status in its step
\* file, whenever one of them wrote the step file.
C23_Converged ==
    \A s \in Steps :
        (/\ \A p \in workersOn(s) : pc[p] = "done"
         /\ \E p \in workersOn(s) : "stepFile" \in wrote[p])
        => /\ ledger.steps[s].present
           /\ ledger.steps[s].status = statusOf(stepFile[s])


\* the status under which a snapshot lists step s, "" when it lists it nowhere
listedAs(snapshot, s) ==
    IF s \in snapshot.completedStepIds THEN "complete"
    ELSE IF s \in snapshot.inProgressSteps THEN "in-progress"
    ELSE IF s \in snapshot.pendingSteps THEN "pending"
    ELSE IF s \in snapshot.failedSteps THEN "failed"
    ELSE ""

\* C24: the snapshot that a read prints lists every step whose step file
\* parses under the status of the file, whatever the ledger caches, and a step
\* that only the ledger knows under the ledger's status, pending by default;
\* so a step whose completion was killed after the step-file write is listed
\* as complete.
C24_StepFilesWin ==
    [][\A p \in DOMAIN pc :
         (inv[p].op = "read" /\ pc[p] = "start" /\ pc'[p] = "done" /\ exit'[p] = "ok")
         => \A s \in Steps :
               listedAs(out'[p], s) =
                  IF stepFile[s].kind = "json" THEN stepFile[s].status
                  ELSE IF ~ledger.steps[s].present THEN ""
                  ELSE IF ledger.steps[s].status = "" THEN "pending"
                  ELSE ledger.steps[s].status]_vars

\* the complete invocation was killed after it wrote the step file and before
\* the ledger was updated, and the read that followed lists the step as complete
C24_Witness ==
    /\ pc[2] = "crashed" /\ "stepFile" \in wrote[2]
    /\ ledger.steps[StepNames[1]].status = "in-progress"
    /\ out[3] # NoOut
    /\ StepNames[1] \in out[3].completedStepIds


\* the status to which a step resolves: that of its step file when the file
\* parses, else the one the ledger caches
resolved(s) ==
    IF stepFile[s].kind = "json" THEN stepFile[s].status ELSE ledger.steps[s].status

\* C25: in the record of a validation, allStepsComplete is true exactly when
\* every step id declared in the ledger resolves to complete, if the ledger
\* declares any; else exactly when some step file was read and every step
\* file read is complete.
C25_AllStepsComplete ==
    \A n \in records :
        validation[n].allStepsComplete <=>
            IF \E s \in Steps : ledger.steps[s].present
            THEN \A s \in Steps : ledger.steps[s].present => resolved(s) = "complete"
            ELSE /\ \E s \in Steps : stepFile[s].kind = "json"
                 /\ \A s \in Steps : stepFile[s].kind = "json" => stepFile[s].status = "complete"

\* a record says that all steps are complete although the ledger caches the
\* declared step as pending: its step file says complete
C25_Witness ==
    \E n \in records :
        /\ validation[n].allStepsComplete
        /\ \E s \in Steps : ledger.steps[s] = DeclaredEntry /\ stepFile[s].kind = "json"
        /\ \E s \in Steps : ~ledger.steps[s].present /\ stepFile[s] = claimStepData("w1")


\* C26: a validation that meets an unparseable step file counts that step as
\* not complete, so that its record has allStepsComplete and overallComplete
\* false and holds a note on the corrupted file; the record is written and,
\* once the run has ended, its summary is in the ledger.
C26_CorruptDegrades ==
    \A p \in monitors :
        \A s \in Steps :
            (stepFile[s] = Corrupt /\ "validation" \in wrote[p])
            => LET v == validation[Digits(ledger.iteration)]
               IN  /\ v.kind = "json"
                   /\ InSeq("Corrupted step file: " \o s, v.notes)
                   /\ ~v.allStepsComplete
                   /\ ~v.overallComplete
                   /\ pc[p] = "done" =>
                         exit[p] = "ok" /\ ledger.lastValidation = lastValidationOf(v)


\* the record of the ledger's current iteration parses
currentParses ==
    Digits(ledger.iteration) \in DOMAIN validation
    /\ validation[Digits(ledger.iteration)].kind = "json"

quiet(s) == \A p \in workersOn(s) : pc[p] \in {"start", "done"}

\* C28: whenever no claim or complete invocation on a step is mid-flight, a
\* lock file of the step exists only if its step file is in-progress with the
\* owner that the lock records and a claim by that owner has succeeded; a
\* step whose file is complete, or whose claim failed, has no lock.
C28_LockLifecycle ==
    \A s \in Steps :
        (quiet(s) /\ stepLock[s].kind # "absent")
        => /\ stepLock[s].kind = "json"
           /\ stepFile[s].kind = "json"
           /\ stepFile[s].status = "in-progress"
           /\ stepFile[s].worker = stepLock[s].workerId
           /\ \E p \in workersOn(s) :
                 inv[p].op = "claim" /\ exit[p] = "ok" /\ inv[p].worker = stepLock[s].workerId


\* a step of a cleanup invocation
cleaning == \E c \in cleanups : pc'[c] # pc[c] \/ loc'[c] # loc[c]

\* C29: no attempt to acquire a lock replaces or removes a lock file that
\* exists: a step lock changes only by a cleanup, the ledger lock only by a
\* cleanup or by the release that ends a critical section; no claim creates
\* the lock of a step, and no process enters the ledger mutex, while a lock
\* file is there; and the lock of a killed process stays as it is for as long
\* as no cleanup has removed a lock.
C29_NoTakeover ==
    /\ [][\A s \in Steps :
            stepLock[s] # NoFile => (stepLock'[s] = stepLock[s]
                                     \/ (stepLock'[s] = NoFile /\ cleaning))]_vars
    /\ [][stateLock # NoFile =>
            \/ stateLock' = stateLock
            \/ stateLock' = NoFile /\ cleaning
            \/ stateLock' = NoFile /\ \E p \in DOMAIN pc : pc[p] = "release" /\ pc'[p] = "done"]_vars
    /\ [][\A q \in DOMAIN pc :
            /\ (pc[q] = "claim_lock" /\ pc'[q] = "claim_write")
                  => stepLock[inv[q].step] = NoFile
            /\ (pc[q] = "acquire" /\ pc'[q] = "fn_read") => stateLock = NoFile]_vars
    /\ [][(/\ stateLock # NoFile
           /\ pc[stateLock.pid] = "crashed"
           /\ \A c \in cleanups : wrote[c] = {})
          => (stateLock' = stateLock \/ cleaning)]_vars

\* the first claim was killed while it held the ledger mutex and the lock of
\* its step: the forced claim of the same step was turned away and the claim of
\* the other step waits for the mutex
C29_Witness ==
    /\ pc[1] = "crashed"
    /\ stateLock # NoFile /\ stateLock.pid = 1
    /\ stepLock[StepNames[1]] = LockJson("w1", 1)
    /\ exit[2] = "currently locked"
    /\ pc[3] = "acquire"
    /\ pc[4] = "start"


\* how many times step s is listed in a sequence of step ids
occurrences(q, s) == Cardinality({i \in DOMAIN q : q[i] = s})

\* the steps that owner w has completed: a complete invocation acting for w
\* has ended with success on each
completedBy(w) ==
    {inv[p].step : p \in {q \in completes :
                             /\ pc[q] = "done" /\ exit[q] = "ok"
                             /\ stepFile[inv[q].step].kind = "json"
                             /\ stepFile[inv[q].step].worker = w}}

\* C30: once the complete invocations of an owner have ended, the owner's
\* progress record lists every step that the owner has completed, each
\* exactly once.
C30_ProgressLossless ==
    \A w \in Workers :
        (\A p \in completes : pc[p] = "done")
        => \A s \in completedBy(w) :
              /\ progress[w].kind = "json"
              /\ occurrences(progress[w].stepsCompleted, s) = 1


\* C31: the ledger that a claim or a complete writes back differs from the one
\* it read under the mutex only in the entry of its own step and in workers;
\* the ledger that a validation writes back differs only in monitors and
\* lastValidation.
C31_FoldFrame ==
    [][\A p \in DOMAIN pc :
         (pc[p] = "fn_write" /\ pc'[p] = "release")
         => LET latest == loc[p].latest
            IN  /\ ledger'.kind = "json"
                /\ ledger'.task = latest.task
                /\ ledger'.iteration = latest.iteration
                /\ ledger'.maxIterations = latest.maxIterations
                /\ ledger'.completionPromise = latest.completionPromise
                /\ IF inv[p].op = "validate"
                   THEN /\ ledger'.steps = latest.steps
                        /\ ledger'.workers = latest.workers
                   ELSE /\ \A s \in Steps \ {inv[p].step} :
                              ledger'.steps[s] = latest.steps[s]
                        /\ ledger'.monitors = latest.monitors
                        /\ ledger'.lastValidation = latest.lastValidation]_vars

\* every invocation has ended: the ledger holds the completion of the step,
\* its owner, both monitors and a summary, and its promise as configured
C31_Witness ==
    /\ finished(DOMAIN pc)
    /\ ledger.steps[StepNames[1]].status = "complete"
    /\ ledger.workers = <<"w1">>
    /\ Len(ledger.monitors) = 2
    /\ ledger.lastValidation.kind = "json"
    /\ ledger.completionPromise = "P"


\* no identifier is listed twice in q
noDuplicate(q) == \A i, j \in DOMAIN q : q[i] = q[j] => i = j

\* C32: no step of a claim, complete or validate invocation takes an
\* identifier out of the ledger's workers or monitors, neither list ever holds
\* an identifier twice, and the owner of a claim that has succeeded is in
\* workers from then on, whether or not the step is completed.
C32_ParticipantsGrow ==
    /\ [][/\ \A w \in Workers : InSeq(w, ledger.workers) => InSeq(w, ledger'.workers)
          /\ \A i \in DOMAIN ledger.monitors :
                InSeq(ledger.monitors[i], ledger'.monitors)]_vars
    /\ [](/\ noDuplicate(ledger.workers)
          /\ noDuplicate(ledger.monitors)
          /\ \A p \in DOMAIN pc :
                (inv[p].op = "claim" /\ exit[p] = "ok") => InSeq(inv[p].worker, ledger.workers))

\* the claim of the second step has succeeded and its complete has not begun;
\* its owner is in workers beside the owner of the first step, completed, and
\* the monitor is in monitors
C32_Witness ==
    /\ exit[2] = "ok" /\ pc[2 + NumSteps] = "start"
    /\ statusOf(stepFile[StepNames[2]]) = "in-progress"
    /\ exit[1 + NumSteps] = "ok"
    /\ ledger.workers \in {<<"w1", "w2">>, <<"w2", "w1">>}
    /\ ledger.monitors = <<"m1">>


\* the cleanup invocations that ask for the archive only
archivers == {p \in cleanups : inv[p].archive /\ ~inv[p].removeAll}

testsRecorded(p, v) ==
    /\ inv[p].tests = "fail" =>
          /\ v.testsPassing = "false"
          /\ ~v.overallComplete
          /\ InSeq("Tests failed", v.notes)
    /\ inv[p].tests = "undetected" =>
          /\ v.testsPassing = "null"
          /\ InSeq("Test framework not detected", v.notes)

\* C34: a validation run whose verification command fails writes a record
\* with testsPassing false, overallComplete false and a note, folds the same
\* outcome into lastValidation of the ledger and ends with success; a run
\* that finds no command to run writes testsPassing null and a note.
C34_TestsDegrade ==
    /\ [][\A p \in monitors :
            /\ (pc[p] = "validate_scan" /\ pc'[p] = "acquire") =>
                  LET v == loc'[p].validation
                  IN  /\ validation'[Digits(v.iteration)] = v
                      /\ testsRecorded(p, v)
            /\ (pc[p] = "fn_write" /\ pc'[p] = "release") =>
                  /\ ledger'.lastValidation = lastValidationOf(loc[p].validation)
                  /\ ledger'.lastValidation.testsPassing = testsPassing(inv[p].tests)
                  /\ inv[p].tests = "fail" => ~ledger'.lastValidation.overallComplete]_vars
    /\ [](\A p \in monitors :
            (pc[p] = "done" /\ inv[p].tests \in {"fail", "undetected"}) =>
                exit[p] = "ok" /\ {"validation", "ledger"} \subseteq wrote[p])

\* the step is complete, the first monitor's command has failed, and its
\* record and the ledger both say: all steps complete, tests failing, not
\* complete overall
C34_Witness ==
    /\ exit[3] = "ok" /\ inv[3].tests = "fail"
    /\ ledger.lastValidation.kind = "json"
    /\ ledger.lastValidation.timestamp = 3
    /\ ledger.lastValidation.allStepsComplete
    /\ ledger.lastValidation.testsPassing = "false"
    /\ ~ledger.lastValidation.overallComplete
    /\ validation[Digits(ledger.lastValidation.iteration)].kind = "json"
    /\ validation[Digits(ledger.lastValidation.iteration)].timestamp = 3
    /\ InSeq("Tests failed", validation[Digits(ledger.lastValidation.iteration)].notes)


\* the complete invocations that have ended and that followed a successful
\* claim of their step by their owner
completions ==
    {p \in completes :
        /\ pc[p] = "done"
        /\ inv[p].after # 0
        /\ inv[inv[p].after].op = "claim"
        /\ inv[inv[p].after].step = inv[p].step
        /\ inv[inv[p].after].worker = inv[p].worker
        /\ exit[inv[p].after] = "ok"}

failedHolders ==
    {p \in DOMAIN pc :
        /\ inv[p].op = "claim"
        /\ pc[p] = "done" /\ exit[p] # "ok"
        /\ "stepLock" \in wrote[p]}

\* C36: when a claim invocation that created the lock of its step has ended
\* with a failure, the lock it created is no longer there.
C36_FailedClaimUnlocks ==
    \A p \in failedHolders :
        \/ stepLock[inv[p].step] = NoFile
        \/ stepLock[inv[p].step].pid # p


\* the steps whose file parses
parsedSteps == {s \in Steps : stepFile[s].kind = "json"}

\* C37: when a validation record has overallComplete true, every step file
\* that parses has status complete, whether or not the ledger declares its id.
C37_NothingUnfinished ==
    \A n \in records :
        validation[n].overallComplete =>
            \A s \in parsedSteps : stepFile[s].status = "complete"

\* C37 as the code has it: when a validation record has overallComplete true,
\* every parseable step file of an id that the ledger declares has status
\* complete; the step files of other ids count only when the ledger declares
\* no step at all.
C37_DeclaredUnfinished ==
    \A n \in records :
        validation[n].overallComplete =>
            \A s \in parsedSteps :
                (ledger.steps[s].present \/ expectedStepIds(ledger) = {})
                => stepFile[s].status = "complete"

\* a record says complete overall: the declared step has a complete step
\* file, and the step file of the undeclared step is in-progress
C37_Witness ==
    \E n \in records :
        /\ validation[n].overallComplete
        /\ ledger.steps[StepNames[1]].present /\ statusOf(stepFile[StepNames[1]]) = "complete"
        /\ ~ledger.steps[StepNames[2]].present
        /\ statusOf(stepFile[StepNames[2]]) = "in-progress"


\* C38: once every validation run has ended, the summary in lastValidation of
\* the ledger is the summary of the validation record stored for the same
\* iteration.
C38_SummaryMatchesRecord ==
    (finished(monitors) /\ ledger.lastValidation.kind = "json") =>
        LET v == validation[Digits(ledger.lastValidation.iteration)]
        IN  /\ v.kind = "json"
            /\ ledger.lastValidation = lastValidationOf(v)


\* C39: whatever the order in which the validation directory is listed, the
\* scan of readLatestValidation returns the same record: the one that parses
\* with the numerically greatest iteration, and none when no record parses.
C39_OrderIndependent ==
    \A q \in Listings(validation) :
        scanValidation(validation, q, <<NoFile, -1>>)[1] =
            IF parseable = {} THEN NoFile ELSE validation[greatest]

\* the record of the greatest iteration is unparseable and the ledger is at
\* an iteration without a record: the read has scanned past the records of
\* iterations 1 and 10 and reports that of iteration 2
C39_Witness ==
    \E p \in reads :
        /\ ledger.iteration = 3
        /\ validation[Digits(BigIter)] = Corrupt
        /\ validation[Digits(1)].kind = "json"
        /\ validation[Digits(2)].kind = "json"
        /\ out[p].lastValidation = validation[Digits(2)]

====
